---- MODULE Spec2Model ----
(***************************************************************************)
(* A model of windspharm: the array tools (prep_data / recover_data), the  *)
(* grid-type inspection, the numeric VectorWind engine of                  *)
(* windspharm.standard and the labelled-array interfaces built on it.      *)
(*                                                                         *)
(* Arrays are numpy arrays: a shape and the elements in C order.  Axis     *)
(* numbers and indices are 0-based as in the Python code; TLA+ sequences   *)
(* are 1-based, so axis k of a shape s is s[k + 1].                        *)
(***************************************************************************)
EXTENDS Integers, Sequences, FiniteSets, TLC

VARIABLES
    t_pc,        \* tools session: "start", "prepped", "recovered", "error"
    t_data,      \* the array given to prep_data
    t_dimorder,  \* the dimension-order string given to prep_data
    t_pdata,     \* prep_data's first result
    t_info,      \* prep_data's second result (the recovery dictionary)
    t_rdata      \* recover_data's result

toolsVars == <<t_pc, t_data, t_dimorder, t_pdata, t_info, t_rdata>>

VARIABLES
    g_pc,        \* grid inspection: "start", "done"
    g_lats,      \* the latitudes given to inspect_gridtype (1e-4 degree)
    g_result     \* what inspect_gridtype returned or raised

gridVars == <<g_pc, g_lats, g_result>>

VARIABLES
    e_pc,        \* engine session: "new", "built", "failed"
    e_args,      \* the arguments given to standard.VectorWind(...)
    e_self,      \* the VectorWind instance, None while there is none
    e_call,      \* the last method call made on the instance
    e_ret        \* what that call returned or raised

engineVars == <<e_pc, e_args, e_self, e_call, e_ret>>

VARIABLES
    a_pc,        \* adapter session: "new", "built", "failed", "returned",
                 \* "raised"
    a_args,      \* the interface chosen and the u, v given to it
    a_w,         \* the interface's VectorWind instance, None while none
    a_call,      \* the method call made on the instance
    a_ret        \* the arrays that call returned, as a tuple, or what it
                 \* raised

adapterVars == <<a_pc, a_args, a_w, a_call, a_ret>>

VARIABLES
    i_args,      \* two instances: what each is constructed from
    i_w,         \* the VectorWind instance each name is bound to, or None
    i_id,        \* the identity of the engine object each one holds, 0 if
                 \* none
    i_next,      \* the identity the next engine object created gets
    i_call,      \* the last method call made on each instance
    i_ret        \* what that call returned, as a tuple

instanceVars == <<i_args, i_w, i_id, i_next, i_call, i_ret>>

VARIABLES
    l_pc,        \* latitude ordering: "start", "reversed", "reversed2",
                 \* "ordered", "ordered2", "written"
    l_heap,      \* the array buffers allocated so far, each in C order
    l_args,      \* latdim, u, v and axis given by the caller
    l_ret        \* the arrays the last call returned

latdimVars == <<l_pc, l_heap, l_args, l_ret>>

VARIABLES
    m_pc,        \* names and units: "new", "built", "failed", "returned"
    m_args,      \* the interface, u and v and the attributes they carry
    m_w,         \* the instance constructed
    m_warnings,  \* the warnings issued so far
    m_call,      \* the last method called, with its arguments
    m_ret        \* the arrays it returned and the attributes they carry

VARIABLES o_pc, o_args, o_ret
attributeVars == <<m_pc, m_args, m_w, m_warnings, m_call, m_ret>>
apiorderVars == <<o_pc, o_args, o_ret>>

vars == <<toolsVars, gridVars, engineVars, adapterVars, instanceVars,
          latdimVars, attributeVars, apiorderVars>>

\* A value no array, string or dictionary equals.
None == [none |-> TRUE]

-----------------------------------------------------------------------------
(* Bounds *)

MaxRank == 4
MaxExtent == 2
MaxNlat == 4
MaxNt == 2
MaxExtraDims == 1

-----------------------------------------------------------------------------
(* numpy *)

RECURSIVE ProdFrom(_, _)
\* Product of the extents s[k], s[k+1], ... (1 for an empty slice).
ProdFrom(s, k) == IF k > Len(s) THEN 1 ELSE s[k] * ProdFrom(s, k + 1)

np_prod(s) == ProdFrom(s, 1)

\* Offset in C order of the 0-based index tuple idx in an array of shape s.
RECURSIVE RavelUpTo(_, _, _)
RavelUpTo(idx, s, n) ==
    IF n = 0 THEN 0 ELSE RavelUpTo(idx, s, n - 1) * s[n] + idx[n]

Ravel(idx, s) == RavelUpTo(idx, s, Len(s))

\* The 0-based index tuple at offset off of an array of shape s.
Unravel(off, s) ==
    [k \in 1..Len(s) |-> (off \div ProdFrom(s, k + 1)) % s[k]]

\* A grid computed by the spherical-harmonic transform is kept field by
\* field: a shape (nlat, nlon) or (nlat, nlon, nt) and, for each of its
\* fields, the term that says how the field was computed.
IsComputed(a) == "fields" \in DOMAIN a

\* Element (i, j) of a computed field.
ElementOf(field, i, j) == [of |-> field, i |-> i, j |-> j]

\* The elements of array a in C order.
FlatOf(a) ==
    IF IsComputed(a)
    THEN LET nt == Len(a.fields)
         IN  [o \in 1..(a.shape[1] * a.shape[2] * nt) |->
                 ElementOf(a.fields[((o - 1) % nt) + 1],
                           ((o - 1) \div nt) \div a.shape[2],
                           ((o - 1) \div nt) % a.shape[2])]
    ELSE a.flat

\* Element of array a at the 0-based index tuple idx.
At(a, idx) == FlatOf(a)[Ravel(idx, a.shape) + 1]

\* Position (1-based) of value x in sequence q; 0 when absent.
PosIn(q, x) ==
    IF \E k \in 1..Len(q) : q[k] = x
    THEN CHOOSE k \in 1..Len(q) : q[k] = x /\ \A j \in 1..(k - 1) : q[j] # x
    ELSE 0

\* The offset in the array read of the element at offset off of the array
\* made: each index (off \div strides[k]) % shape[k] of the array made is
\* multiplied by the stride from[k] of its axis in the array read.
RECURSIVE SourceOffset(_, _, _, _, _)
SourceOffset(off, shape, strides, from, k) ==
    IF k = 0 THEN 0
    ELSE ((off \div strides[k]) % shape[k]) * from[k]
         + SourceOffset(off, shape, strides, from, k - 1)

\* ndarray.transpose(axes): axis k of the result is axis axes[k] of a.
np_transpose(a, axes) ==
    LET n == Len(axes)
        newshape == [k \in 1..n |-> a.shape[axes[k] + 1]] \o <<>>
        strides == [k \in 1..n |-> ProdFrom(newshape, k + 1)] \o <<>>
        from == [k \in 1..n |-> ProdFrom(a.shape, axes[k] + 2)] \o <<>>
        flat == FlatOf(a)
    IN  [shape |-> newshape,
         flat  |-> [o \in 1..np_prod(newshape) |->
                       flat[SourceOffset(o - 1, newshape, strides, from, n)
                            + 1]]]

\* The sequence q without its element at 1-based position p.
RemoveAt(q, p) == SubSeq(q, 1, p - 1) \o SubSeq(q, p + 1, Len(q))

\* range(n) as a sequence: 0, 1, ..., n-1.
Range(n) == [k \in 1..n |-> k - 1]

\* numpy.rollaxis(a, axis) with start = 0: the axis moves to the front.
np_rollaxis(a, axis) ==
    np_transpose(a, <<axis>> \o RemoveAt(Range(Len(a.shape)), axis + 1))

\* ndarray.reshape(newshape): the elements keep their C order.
np_reshape(a, newshape) == [shape |-> newshape, flat |-> FlatOf(a)]

-----------------------------------------------------------------------------
(* Python strings, as sequences of one-character strings *)

Chars == {"x", "y", "a", "b", "X"}

\* str.lower() on one character.
LowerChar(c) == IF c = "X" THEN "x" ELSE c

str_lower(s) == [k \in 1..Len(s) |-> LowerChar(s[k])]

\* str.find(c): 0-based position of the first occurrence, -1 when absent.
str_find(s, c) == PosIn(s, c) - 1

\* c in s
str_contains(s, c) == \E k \in 1..Len(s) : s[k] = c

\* str.replace(c, ''): every occurrence of c removed.
RECURSIVE str_remove(_, _)
str_remove(s, c) ==
    IF s = <<>> THEN <<>>
    ELSE IF Head(s) = c THEN str_remove(Tail(s), c)
         ELSE <<Head(s)>> \o str_remove(Tail(s), c)

\* s[::-1]
Reversed(s) == [k \in 1..Len(s) |-> s[Len(s) + 1 - k]]

-----------------------------------------------------------------------------
(* windspharm.tools *)

ValueError(msg) == [error |-> "ValueError", msg |-> msg]

IsError(r) == "error" \in DOMAIN r

\* tools.__order_dims: latitude to axis 0, longitude to axis 1.
order_dims(d, inorder) ==
    IF ~str_contains(inorder, "x") \/ ~str_contains(inorder, "y")
    THEN ValueError("a latitude-longitude grid is required")
    ELSE LET lonpos == str_find(str_lower(inorder), "x")
             latpos0 == str_find(str_lower(inorder), "y")
             d1 == np_rollaxis(d, lonpos)
             latpos == IF latpos0 < lonpos THEN latpos0 + 1 ELSE latpos0
             d2 == np_rollaxis(d1, latpos)
             outorder == <<"y", "x">> \o
                         str_remove(str_remove(inorder, "x"), "y")
         IN  [d |-> d2, outorder |-> outorder]

\* tools.__reshape: everything after the first two axes becomes one axis.
tools_reshape(d) ==
    [out |-> np_reshape(d, SubSeq(d.shape, 1, 2) \o <<ProdFrom(d.shape, 3)>>),
     shape |-> d.shape]

\* tools.prep_data
prep_data(data, dimorder) ==
    LET od == order_dims(data, dimorder)
    IN  IF IsError(od) THEN od
        ELSE LET rs == tools_reshape(od.d)
             IN  [pdata |-> rs.out,
                  info  |-> [intermediate_shape |-> rs.shape,
                             intermediate_order |-> od.outorder,
                             original_order     |-> dimorder]]

\* The loop of recover_data: roll axis rolldims[i] to the front, then shift
\* the pending axis numbers that were in front of it.
RECURSIVE RollLoop(_, _, _)
RollLoop(data, rolldims, i) ==
    IF i > Len(rolldims) THEN data
    ELSE RollLoop(np_rollaxis(data, rolldims[i]),
                  [k \in 1..Len(rolldims) |->
                      IF rolldims[k] < rolldims[i]
                      THEN rolldims[k] + 1 ELSE rolldims[k]],
                  i + 1)

\* tools.recover_data
recover_data(pdata, info) ==
    LET data == np_reshape(pdata, info.intermediate_shape)
        rev  == Reversed(info.original_order)
        rolldims == [k \in 1..Len(rev) |->
                        str_find(info.intermediate_order, rev[k])]
    IN  RollLoop(data, rolldims, 1)

-----------------------------------------------------------------------------
(* The tools session: an array and a dimension order are chosen, prep_data *)
(* is applied, then recover_data is applied to what it returned.           *)

\* Shapes of rank r with extents 1..MaxExtent.
Shapes(r) == [1..r -> 1..MaxExtent]

\* The array of the given shape whose elements are all different (each
\* element is its own offset), so that any misplaced element shows.
Labelled(shape) == [shape |-> shape, flat |-> [o \in 1..np_prod(shape) |-> o - 1]]

ToolsIdle ==
    /\ t_pc = "idle"
    /\ t_data = None
    /\ t_dimorder = <<>>
    /\ t_pdata = None
    /\ t_info = None
    /\ t_rdata = None

ToolsStart ==
    /\ t_pc = "start"
    /\ \E r \in 2..MaxRank :
         /\ \E s \in Shapes(r) : t_data = Labelled(s)
         /\ t_dimorder \in [1..r -> Chars]
    /\ t_pdata = None
    /\ t_info = None
    /\ t_rdata = None

PrepData ==
    /\ t_pc = "start"
    /\ LET r == prep_data(t_data, t_dimorder)
       IN  IF IsError(r)
           THEN /\ t_pc' = "error"
                /\ UNCHANGED <<t_pdata, t_info>>
           ELSE /\ t_pc' = "prepped"
                /\ t_pdata' = r.pdata
                /\ t_info' = r.info
    /\ UNCHANGED <<t_data, t_dimorder, t_rdata, gridVars, engineVars, adapterVars,
                   instanceVars, latdimVars, attributeVars, apiorderVars>>

RecoverData ==
    /\ t_pc = "prepped"
    /\ t_rdata' = recover_data(t_pdata, t_info)
    /\ t_pc' = "recovered"
    /\ UNCHANGED <<t_data, t_dimorder, t_pdata, t_info, gridVars, engineVars,
                   adapterVars,
                   instanceVars, latdimVars, attributeVars, apiorderVars>>

ToolsNext == PrepData \/ RecoverData

-----------------------------------------------------------------------------
(* windspharm._common.inspect_gridtype.  Latitudes are whole numbers of    *)
(* 1e-4 degree, so the tolerance 5e-4 is 5 and 90 degrees is 900000.       *)

Ok(v) == [value |-> v]

Abs(x) == IF x < 0 THEN -x ELSE x

tolerance == 5

Deg90 == 900000

\* spharm.gaussian_lats_wts(nlat)[0]: the Gaussian latitudes, north to
\* south, rounded to 1e-4 degree.
gaussian_lats(nlat) ==
    CASE nlat = 2 -> <<352644, -352644>>
      [] nlat = 3 -> <<507685, 0, -507685>>
      [] nlat = 4 -> <<594444, 198757, -198757, -594444>>
      [] nlat = 5 -> <<649827, 325795, 0, -325795, -649827>>
      [] nlat = 6 -> <<688231, 413922, 138051, -138051, -413922, -688231>>

\* numpy.linspace(start, -start, n): n equally spaced values, both ends
\* included.
linspace_sym(start, n) ==
    [k \in 1..n |-> start - ((k - 1) * 2 * start) \div (n - 1)]

\* The reference global equally spaced latitudes of inspect_gridtype: the
\* poles included for an odd count, half a cell inside them for an even one.
equal_reference(nlat) ==
    IF nlat % 2 = 1
    THEN linspace_sym(Deg90, nlat)
    ELSE LET delta_latitude == (2 * Deg90) \div nlat
         IN  linspace_sym(Deg90 - delta_latitude \div 2, nlat)

\* numpy.abs(numpy.diff(latitudes))
abs_diffs(latitudes) ==
    [k \in 1..(Len(latitudes) - 1) |-> Abs(latitudes[k + 1] - latitudes[k])]

\* inspect_gridtype without the comparison against the global equally
\* spaced latitudes: any equally spaced sequence would be 'regular'.
inspect_gridtype_any_regular(latitudes) ==
    LET nlat == Len(latitudes)
        diffs == abs_diffs(latitudes)
        equally_spaced ==
            \A k \in 1..Len(diffs) : Abs(diffs[k] - diffs[1]) < tolerance
        differs(reference) ==
            \E k \in 1..nlat : Abs(latitudes[k] - reference[k]) > tolerance
    IN  IF ~equally_spaced
        THEN IF differs(gaussian_lats(nlat))
             THEN ValueError("latitudes are neither equally-spaced or Gaussian")
             ELSE Ok("gaussian")
        ELSE Ok("regular")

\* _common.inspect_gridtype
inspect_gridtype(latitudes) ==
    LET nlat == Len(latitudes)
        diffs == abs_diffs(latitudes)
        equally_spaced ==
            \A k \in 1..Len(diffs) : Abs(diffs[k] - diffs[1]) < tolerance
        differs(reference) ==
            \E k \in 1..nlat : Abs(latitudes[k] - reference[k]) > tolerance
    IN  IF ~equally_spaced
        THEN IF differs(gaussian_lats(nlat))
             THEN ValueError("latitudes are neither equally-spaced or Gaussian")
             ELSE Ok("gaussian")
        ELSE IF differs(equal_reference(nlat))
             THEN ValueError("equally-spaced latitudes are invalid (they may be non-global)")
             ELSE Ok("regular")

\* The tolerance of the cdms _gridtype, 0.001 degree.
cdms_tolerance == 10

\* cdms.VectorWind._gridtype of src/lib/cdms.py: the inspection that
\* compares absolute latitudes with the absolute reference.
cdms_gridtype(lat) ==
    LET nlat == Len(lat)
        d == abs_diffs(lat)
        differs(reference) ==
            \E k \in 1..nlat :
                Abs(Abs(lat[k]) - Abs(reference[k])) > cdms_tolerance
        eax == IF nlat % 2 = 1
               THEN linspace_sym(0 - Deg90, nlat)
               ELSE LET dlat == (2 * Deg90) \div nlat
                    IN  linspace_sym(dlat \div 2 - Deg90, nlat)
    IN  IF \E k \in 1..Len(d) : Abs(d[k] - d[1]) > cdms_tolerance
        THEN IF differs(gaussian_lats(nlat))
             THEN ValueError("non-evenly-spaced latitudes are not Gaussian")
             ELSE Ok("gaussian")
        ELSE IF differs(eax)
             THEN ValueError("evenly-spaced grid is invalid")
             ELSE Ok("regular")

-----------------------------------------------------------------------------
(* The grid session: a latitude sequence is chosen and inspected.          *)

\* Offsets added to a reference latitude: inside, on and outside the
\* tolerance.
Deltas == {-6, -5, -2, 0, 3, 5}

\* Equally spaced but covering half the globe only.
half_reference(nlat) == [k \in 1..nlat |-> equal_reference(nlat)[k] \div 2]

BaseLats(nlat) ==
    {equal_reference(nlat), gaussian_lats(nlat), half_reference(nlat)}

GridIdle ==
    /\ g_pc = "idle"
    /\ g_lats = <<>>
    /\ g_result = None

GridStart ==
    /\ g_pc = "start"
    /\ \E nlat \in 2..MaxNlat :
         \E base \in BaseLats(nlat) :
           \E d \in [1..nlat -> Deltas] :
             \E rev \in BOOLEAN :
               LET lats == [k \in 1..nlat |-> base[k] + d[k]]
               IN  g_lats = IF rev THEN Reversed(lats) ELSE lats
    /\ g_result = None

Inspect ==
    /\ g_pc = "start"
    /\ g_result' = inspect_gridtype(g_lats)
    /\ g_pc' = "done"
    /\ UNCHANGED <<g_lats, toolsVars, engineVars, adapterVars,
                   instanceVars, latdimVars, attributeVars, apiorderVars>>

GridNext == Inspect

-----------------------------------------------------------------------------
(* Array elements of the wind engine.  An element is a number, NaN, or the *)
(* value a spherical-harmonic routine of spharm computed, kept as the term *)
(* that says which routine computed it from which input.                   *)

Num(n) == [num |-> n]

NaN == [nan |-> TRUE]

np_isnan(x) == x = NaN

\* numpy.isnan(a).any()
AnyNaN(a) == LET flat == FlatOf(a) IN \E o \in 1..Len(flat) : np_isnan(flat[o])

\* A masked array carries a mask; a plain ndarray has no filled() method.
IsMasked(a) == "mask" \in DOMAIN a

\* MaskedArray.filled(fill_value=nan)
ma_filled(a) ==
    [shape |-> a.shape,
     flat  |-> [o \in 1..Len(a.flat) |->
                   IF a.mask[o] THEN NaN ELSE a.flat[o]]]

\* ndarray.copy()
np_copy(a) == [shape |-> a.shape, flat |-> a.flat]

\* FilledOrCopy without the fill: the masked elements keep their values.
FilledOrCopy_unfilled(a) == np_copy(a)

\* try: a.filled(fill_value=nan)  except AttributeError: a.copy()
FilledOrCopy(a) == IF IsMasked(a) THEN ma_filled(a) ELSE np_copy(a)

\* Unary minus on an element.
Neg(x) == IF "num" \in DOMAIN x THEN Num(0 - x.num) ELSE [fn |-> "neg", x |-> x]

\* -a
np_negative(a) ==
    IF IsComputed(a)
    THEN [shape |-> a.shape,
          fields |-> [k \in 1..Len(a.fields) |->
                         [fn |-> "neg", x |-> a.fields[k]]]]
    ELSE [shape |-> a.shape,
          flat |-> [o \in 1..Len(a.flat) |-> Neg(a.flat[o])]]

-----------------------------------------------------------------------------
(* spharm.Spharmt, the spherical-harmonic transform the engine drives.     *)
(* A grid is (nlat, nlon) or (nlat, nlon, nt); the nt fields are handled   *)
(* one by one.                                                             *)

IntVal(n) == [int |-> n]

MinNlat == 3
MinNlon == 4

GridTypes == {"regular", "gaussian"}

\* Spharmt(nlon, nlat, gridtype=..., rsphere=...)
Spharmt(nlon, nlat, gridtype, rsphere) ==
    IF nlon < MinNlon \/ nlat < MinNlat \/ gridtype \notin GridTypes
    THEN ValueError("Spharmt")
    ELSE [nlat |-> nlat, nlon |-> nlon, gridtype |-> gridtype,
          rsphere |-> rsphere]

\* Number of fields of a grid.
NFields(a) == IF Len(a.shape) = 2 THEN 1 ELSE a.shape[3]

\* FieldOf reading the grid as if the fields came first: field k would be
\* the k-th run of nlat*nlon elements.
FieldOf_fields_first(a, k) ==
    IF IsComputed(a) THEN a.fields[k]
    ELSE LET n == a.shape[1] * a.shape[2]
         IN  [cells |-> [p \in 1..n |-> a.flat[(k - 1) * n + p]]]

\* Field k (1-based) of a grid: the term that computed it, or its
\* nlat*nlon elements row by row.
FieldOf(a, k) ==
    IF IsComputed(a) THEN a.fields[k]
    ELSE LET nt == NFields(a)
         IN  [cells |-> [p \in 1..(a.shape[1] * a.shape[2]) |->
                            a.flat[(p - 1) * nt + k]]]

\* Shape of the grid made from spectral coefficients spec.
SpecGridShape(s, spec) ==
    IF spec.rank = 1 THEN <<s.nlat, s.nlon>>
    ELSE <<s.nlat, s.nlon, Len(spec.coef)>>

\* The truncation in force: nlat - 1 when none is given.
Ntrunc(s, ntrunc) == IF ntrunc = None THEN IntVal(s.nlat - 1) ELSE ntrunc

\* A grid the transform accepts: rank 2 or 3, nlat by nlon.
Compatible(s, a) ==
    /\ Len(a.shape) \in {2, 3}
    /\ a.shape[1] = s.nlat
    /\ a.shape[2] = s.nlon

\* Spharmt.getvrtdivspec(u, v, ntrunc): spectral vorticity and divergence.
getvrtdivspec(s, u, v, ntrunc) ==
    LET spec(out) ==
            [rank |-> Len(u.shape) - 1,
             coef |-> [k \in 1..NFields(u) |->
                          [fn |-> "getvrtdivspec", out |-> out, s |-> s,
                           u |-> FieldOf(u, k), v |-> FieldOf(v, k),
                           ntrunc |-> Ntrunc(s, ntrunc)]]]
    IN  <<spec("vrt"), spec("div")>>

\* Spharmt.spectogrd(spec): spectral coefficients to a grid.
spectogrd(s, spec) ==
    [shape  |-> SpecGridShape(s, spec),
     fields |-> [k \in 1..Len(spec.coef) |->
                    [fn |-> "spectogrd", s |-> s, spec |-> spec.coef[k]]]]

\* Spharmt.getpsichi(u, v, ntrunc): streamfunction and velocity potential.
getpsichi(s, u, v, ntrunc) ==
    LET grid(out) ==
            [shape  |-> u.shape,
             fields |-> [k \in 1..NFields(u) |->
                            [fn |-> "getpsichi", out |-> out, s |-> s,
                             u |-> FieldOf(u, k), v |-> FieldOf(v, k),
                             ntrunc |-> Ntrunc(s, ntrunc)]]]
    IN  <<grid("psi"), grid("chi")>>

\* Spharmt.grdtospec(grid, ntrunc): a grid to spectral coefficients.
grdtospec(s, grid, ntrunc) ==
    IF ~Compatible(s, grid)
    THEN ValueError("grdtospec")
    ELSE [rank |-> Len(grid.shape) - 1,
          coef |-> [k \in 1..NFields(grid) |->
                       [fn |-> "grdtospec", s |-> s,
                        grid |-> FieldOf(grid, k),
                        ntrunc |-> Ntrunc(s, ntrunc)]]]

\* Spharmt.getgrad(spec): the vector gradient, zonal component first.
getgrad(s, spec) ==
    LET grid(out) ==
            [shape  |-> SpecGridShape(s, spec),
             fields |-> [k \in 1..Len(spec.coef) |->
                            [fn |-> "getgrad", out |-> out, s |-> s,
                             spec |-> spec.coef[k]]]]
    IN  <<grid("zonal"), grid("meridional")>>

-----------------------------------------------------------------------------
(* windspharm.standard.VectorWind *)

\* str.lower() on a grid type.
gridtype_lower(g) ==
    CASE g = "Regular" -> "regular"
      [] g = "GAUSSIAN" -> "gaussian"
      [] OTHER -> g

\* init_spharmt with the two extents given to Spharmt in the wrong order.
init_spharmt_swapped(self_u, self_v, gridtype, rsphere) ==
    LET nlat == self_u.shape[2]
        nlon == self_u.shape[1]
        self_gridtype == gridtype_lower(gridtype)
        s == Spharmt(nlon, nlat, self_gridtype, rsphere)
    IN  IF IsError(s)
        THEN IF self_gridtype \notin {"regular", "gaussian"}
             THEN ValueError("invalid grid type")
             ELSE ValueError("invalid input dimensions")
        ELSE [u |-> self_u, v |-> self_v, gridtype |-> self_gridtype, s |-> s]

\* The end of VectorWind.__init__: the Spharmt object is created for the
\* extents of u (self_u has the shape of u) and the lower-cased grid type.
init_spharmt(self_u, self_v, gridtype, rsphere) ==
    LET nlat == self_u.shape[1]
        nlon == self_u.shape[2]
        self_gridtype == gridtype_lower(gridtype)
        s == Spharmt(nlon, nlat, self_gridtype, rsphere)
    IN  IF IsError(s)
        THEN IF self_gridtype \notin {"regular", "gaussian"}
             THEN ValueError("invalid grid type")
             ELSE ValueError("invalid input dimensions")
        ELSE [u |-> self_u, v |-> self_v, gridtype |-> self_gridtype, s |-> s]

\* VectorWind.__init__ comparing the ranks of u and v only.
standard_init_rank_only(u, v, gridtype, rsphere) ==
    LET self_u == FilledOrCopy(u)
        self_v == FilledOrCopy(v)
    IN  IF AnyNaN(self_u) \/ AnyNaN(self_v)
        THEN ValueError("u and v cannot contain missing values")
        ELSE IF Len(u.shape) # Len(v.shape)
        THEN ValueError("u and v must be the same shape")
        ELSE IF Len(u.shape) \notin {2, 3}
        THEN ValueError("u and v must be rank 2 or 3 arrays")
        ELSE init_spharmt(self_u, self_v, gridtype, rsphere)

\* VectorWind.__init__ looking at the rank before anything else.
standard_init_rank_first(u, v, gridtype, rsphere) ==
    LET self_u == FilledOrCopy(u)
        self_v == FilledOrCopy(v)
    IN  IF Len(u.shape) \notin {2, 3}
        THEN ValueError("u and v must be rank 2 or 3 arrays")
        ELSE IF AnyNaN(self_u) \/ AnyNaN(self_v)
        THEN ValueError("u and v cannot contain missing values")
        ELSE IF u.shape # v.shape
        THEN ValueError("u and v must be the same shape")
        ELSE init_spharmt(self_u, self_v, gridtype, rsphere)

\* VectorWind.__init__: the instance, or the error raised.
standard_init(u, v, gridtype, rsphere) ==
    LET self_u == FilledOrCopy(u)
        self_v == FilledOrCopy(v)
    IN  IF AnyNaN(self_u) \/ AnyNaN(self_v)
        THEN ValueError("u and v cannot contain missing values")
        ELSE IF u.shape # v.shape
        THEN ValueError("u and v must be the same shape")
        ELSE IF Len(u.shape) \notin {2, 3}
        THEN ValueError("u and v must be rank 2 or 3 arrays")
        ELSE init_spharmt(self_u, self_v, gridtype, rsphere)

\* VectorWind.magnitude
magnitude(self) ==
    [shape |-> self.u.shape,
     flat  |-> [o \in 1..Len(self.u.flat) |->
                   [fn |-> "magnitude", u |-> self.u.flat[o],
                    v |-> self.v.flat[o]]]]

\* VectorWind.vrtdiv
vrtdiv(self, truncation) ==
    LET sp == getvrtdivspec(self.s, self.u, self.v, truncation)
        vrtgrid == spectogrd(self.s, sp[1])
        divgrid == spectogrd(self.s, sp[2])
    IN  <<vrtgrid, divgrid>>

\* vorticity that does not pass its truncation on.
vorticity_untruncated(self, truncation) ==
    LET sp == getvrtdivspec(self.s, self.u, self.v, None)
    IN  spectogrd(self.s, sp[1])

\* VectorWind.vorticity
vorticity(self, truncation) ==
    LET sp == getvrtdivspec(self.s, self.u, self.v, truncation)
    IN  spectogrd(self.s, sp[1])

\* VectorWind.divergence
divergence(self, truncation) ==
    LET sp == getvrtdivspec(self.s, self.u, self.v, truncation)
    IN  spectogrd(self.s, sp[2])

\* The default angular velocity of the Earth, 7.292e-05, in units of 1e-8
\* per second.
DefaultOmega == 7292

\* A Python or numpy number (the others tried are a string and a list).
IsNumber(x) == "num" \in DOMAIN x

\* numpy.arange(start, stop, -step): start, start - step, ... as long as
\* the value is above stop.
np_arange_down(start, stop, step) ==
    [k \in 1..((start - stop + step - 1) \div step) |->
        start - (k - 1) * step]

\* The latitudes planetaryvorticity would use if it took the equally
\* spaced ones for every grid type.
planetary_lat_equally_spaced(self) ==
    LET nlat == self.s.nlat
    IN  IF nlat % 2 = 1
        THEN linspace_sym(Deg90, nlat)
        ELSE LET dlat == (2 * Deg90) \div nlat
             IN  np_arange_down(Deg90 - dlat \div 2, 0 - Deg90, dlat)

\* The latitudes planetaryvorticity works with, in units of 1e-4 degree.
planetary_lat(self) ==
    LET nlat == self.s.nlat
    IN  IF self.gridtype = "gaussian"
        THEN gaussian_lats(nlat)
        ELSE IF nlat % 2 = 1
             THEN linspace_sym(Deg90, nlat)
             ELSE LET dlat == (2 * Deg90) \div nlat
                  IN  np_arange_down(Deg90 - dlat \div 2, 0 - Deg90, dlat)

\* 2. * omega * sin(deg2rad(lat)) for one latitude.
Coriolis(omega, lat) == [fn |-> "coriolis", omega |-> omega, lat |-> lat]

\* planetaryvorticity that puts the default in the place of an omega of 0
\* as well (omega = omega or 7.292e-05).
planetaryvorticity_zero_defaulted(self, omega0) ==
    LET omega == IF omega0 = None \/ omega0 = Num(0)
                 THEN Num(DefaultOmega) ELSE omega0
        lat == planetary_lat(self)
    IN  IF ~IsNumber(omega)
        THEN ValueError("invalid value for omega")
        ELSE [shape |-> self.u.shape,
              flat  |-> [o \in 1..np_prod(self.u.shape) |->
                            Coriolis(omega.num,
                                     lat[Unravel(o - 1, self.u.shape)[1]
                                         + 1])]]

\* VectorWind.planetaryvorticity: cp has one value per latitude; cp with
\* one new axis for each other axis of u, times ones of the shape of u.
planetaryvorticity(self, omega0) ==
    LET omega == IF omega0 = None THEN Num(DefaultOmega) ELSE omega0
        lat == planetary_lat(self)
    IN  IF ~IsNumber(omega)
        THEN ValueError("invalid value for omega")
        ELSE [shape |-> self.u.shape,
              flat  |-> [o \in 1..np_prod(self.u.shape) |->
                            Coriolis(omega.num,
                                     lat[Unravel(o - 1, self.u.shape)[1]
                                         + 1])]]

\* a + b for arrays of the same shape.
np_add(a, b) ==
    [shape |-> a.shape,
     flat  |-> [o \in 1..np_prod(a.shape) |->
                   [fn |-> "add", a |-> FlatOf(a)[o], b |-> FlatOf(b)[o]]]]

\* absolutevorticity that leaves out the truncation it was given.
absolutevorticity_untruncated(self, omega, truncation) ==
    LET pvrt == planetaryvorticity(self, omega)
    IN  IF IsError(pvrt) THEN pvrt
        ELSE np_add(pvrt, vorticity(self, None))

\* VectorWind.absolutevorticity
absolutevorticity(self, omega, truncation) ==
    LET pvrt == planetaryvorticity(self, omega)
    IN  IF IsError(pvrt) THEN pvrt
        ELSE np_add(pvrt, vorticity(self, truncation))

\* VectorWind.sfvp
sfvp(self, truncation) == getpsichi(self.s, self.u, self.v, truncation)

\* VectorWind.streamfunction
streamfunction(self, truncation) == sfvp(self, truncation)[1]

\* VectorWind.velocitypotential
velocitypotential(self, truncation) == sfvp(self, truncation)[2]

\* helmholtz taking the gradient components in the other order: the
\* non-divergent wind would be (-zonal, meridional).
helmholtz_zonal_negated(self, truncation) ==
    LET pc == getpsichi(self.s, self.u, self.v, truncation)
        psispec == grdtospec(self.s, pc[1], None)
        chispec == grdtospec(self.s, pc[2], None)
        gpsi == getgrad(self.s, psispec)
        upsi == gpsi[1]
        vpsi == gpsi[2]
        gchi == getgrad(self.s, chispec)
        uchi == gchi[1]
        vchi == gchi[2]
    IN  <<uchi, vchi, np_negative(upsi), vpsi>>

\* VectorWind.helmholtz
helmholtz(self, truncation) ==
    LET pc == getpsichi(self.s, self.u, self.v, truncation)
        psispec == grdtospec(self.s, pc[1], None)
        chispec == grdtospec(self.s, pc[2], None)
        gpsi == getgrad(self.s, psispec)
        vpsi == gpsi[1]
        upsi == gpsi[2]
        gchi == getgrad(self.s, chispec)
        uchi == gchi[1]
        vchi == gchi[2]
    IN  <<uchi, vchi, np_negative(upsi), vpsi>>

\* VectorWind.irrotationalcomponent
irrotationalcomponent(self, truncation) ==
    LET pc == getpsichi(self.s, self.u, self.v, truncation)
        chispec == grdtospec(self.s, pc[2], None)
        gchi == getgrad(self.s, chispec)
    IN  <<gchi[1], gchi[2]>>

\* VectorWind.nondivergentcomponent
nondivergentcomponent(self, truncation) ==
    LET pc == getpsichi(self.s, self.u, self.v, truncation)
        psispec == grdtospec(self.s, pc[1], None)
        gpsi == getgrad(self.s, psispec)
        vpsi == gpsi[1]
        upsi == gpsi[2]
    IN  <<np_negative(upsi), vpsi>>

\* try: chi.filled(fill_value=nan)  except AttributeError: pass
FilledOrSame(a) == IF IsMasked(a) THEN ma_filled(a) ELSE a

\* The exception VectorWind.gradient raises on chi, None when it raises none.
gradient_error(self, chi0, truncation) ==
    LET chi == FilledOrSame(chi0)
    IN  IF AnyNaN(chi)
        THEN ValueError("chi cannot contain missing values")
        ELSE IF IsError(grdtospec(self.s, chi, truncation))
        THEN ValueError("input field is not compatitble")
        ELSE None

\* VectorWind.gradient
gradient(self, chi0, truncation) ==
    LET chi == FilledOrSame(chi0)
        e == gradient_error(self, chi0, truncation)
    IN  IF e # None
        THEN e
        ELSE LET chispec == grdtospec(self.s, chi, truncation)
                 g == getgrad(self.s, chispec)
             IN  <<g[1], g[2]>>

\* truncate that lets the error of the transform through as it is.
truncate_untranslated(self, field0, truncation) ==
    LET field == FilledOrSame(field0)
    IN  IF AnyNaN(field)
        THEN ValueError("field cannot contain missing values")
        ELSE LET fieldspec == grdtospec(self.s, field, truncation)
             IN  IF IsError(fieldspec)
                 THEN fieldspec
                 ELSE spectogrd(self.s, fieldspec)

\* VectorWind.truncate
truncate(self, field0, truncation) ==
    LET field == FilledOrSame(field0)
    IN  IF AnyNaN(field)
        THEN ValueError("field cannot contain missing values")
        ELSE LET fieldspec == grdtospec(self.s, field, truncation)
             IN  IF IsError(fieldspec)
                 THEN ValueError("field is not compatible")
                 ELSE spectogrd(self.s, fieldspec)

-----------------------------------------------------------------------------
(* What a method leaves in the instance it is called on.  This holds for   *)
(* the engine and for the VectorWind of every interface.                   *)

\* The instance is the engine itself (it holds the transform s).
IsEngine(w) == "s" \in DOMAIN w

\* A gradient or truncate from which the instance takes over the layout of
\* the field it was given.
instance_after_field_layout(w, call) ==
    IF call.op \in {"gradient", "truncate"} /\ ~IsEngine(w)
    THEN [w EXCEPT !.ishape = call.field.data.shape]
    ELSE w

\* A gradient or truncate after which the engine holds the field it was
\* given, missing values filled, in the place of its u.
instance_after_field_kept(w, call) ==
    IF call.op \in {"gradient", "truncate"} /\ IsEngine(w)
    THEN [w EXCEPT !.u = FilledOrSame(call.field)]
    ELSE w

\* The instance after a method other than __init__ has run on it: the
\* methods bind local names only, no attribute of self is assigned.
instance_after(w, call) == w

-----------------------------------------------------------------------------
(* Labelled arrays: an iris cube, an xarray DataArray or a cdms2 variable  *)
(* is a container kind, one dimension coordinate per axis and the data.    *)

TypeError(msg) == [error |-> "TypeError", msg |-> msg]

\* A dimension coordinate: its name, its points and its axis attribute.
Coord(name, points, axis) == [name |-> name, points |-> points, axis |-> axis]

\* a[..., ::-1, ...]: the array reversed along one axis.
np_flip(a, axis) ==
    LET flat == FlatOf(a)
        extent == a.shape[axis + 1]
        stride == ProdFrom(a.shape, axis + 2)
        index(o) == ((o - 1) \div stride) % extent
    IN  [shape |-> a.shape,
         flat  |-> [o \in 1..np_prod(a.shape) |->
                       flat[o + (extent - 1 - 2 * index(o)) * stride]]]

\* Cube.transpose / DataArray.transpose / numpy transpose of the data with
\* the coordinates following their axes.
la_transpose(la, axes) ==
    [la EXCEPT !.dims = [k \in 1..Len(axes) |-> la.dims[axes[k] + 1]],
               !.data = np_transpose(la.data, axes)]

\* A reversal of the coordinate that leaves the data as they are.
la_reverse_coordinate_only(la, dim) ==
    [la EXCEPT !.dims[dim + 1].points = Reversed(la.dims[dim + 1].points)]

\* iris.util.reverse(cube, dim), xarray._reverse(array, dim): the data and
\* the coordinate of one axis reversed.
la_reverse(la, dim) ==
    [la EXCEPT !.dims[dim + 1].points = Reversed(la.dims[dim + 1].points),
               !.data = np_flip(la.data, dim)]

\* _common.to3d
to3d(array) ==
    np_reshape(array, SubSeq(array.shape, 1, 2) \o <<ProdFrom(array.shape, 3)>>)

\* list.index(x), 0-based.
list_index(q, x) == PosIn(q, x) - 1

\* list.insert(i, x), 0-based i.
list_insert(q, i, x) == SubSeq(q, 1, i) \o <<x>> \o SubSeq(q, i + 1, Len(q))

\* list.remove(x)
list_remove(q, x) == RemoveAt(q, PosIn(q, x))

\* get_apiorder with the forward ordering returned in both places.
get_apiorder_forward_twice(ndim, latitude_dim, longitude_dim) ==
    LET a0 == Range(ndim)
        a1 == list_remove(a0, latitude_dim)
        a2 == list_remove(a1, longitude_dim)
        a3 == list_insert(a2, 0, latitude_dim)
        apiorder == list_insert(a3, 1, longitude_dim)
    IN  <<apiorder, apiorder>>

\* _common.get_apiorder
get_apiorder(ndim, latitude_dim, longitude_dim) ==
    LET a0 == Range(ndim)
        a1 == list_remove(a0, latitude_dim)
        a2 == list_remove(a1, longitude_dim)
        a3 == list_insert(a2, 0, latitude_dim)
        apiorder == list_insert(a3, 1, longitude_dim)
        reorder == [i \in 1..ndim |-> list_index(apiorder, i - 1)]
    IN  <<apiorder, reorder>>

-----------------------------------------------------------------------------
(* windspharm.iris *)

\* coord in c.name(): the names that contain the word.
NameContains(name, word) ==
    \/ name = word
    \/ name = "grid_latitude" /\ word = "latitude"
    \/ name = "grid_longitude" /\ word = "longitude"

\* iris._dim_coord_and_dim: the coordinate and its (0-based) dimension.
dim_coord_and_dim(cube, coord) ==
    LET found == SelectSeq(cube.dims, LAMBDA c : NameContains(c.name, coord))
    IN  IF Len(found) > 1
        THEN ValueError("multiple coordinates not allowed")
        ELSE IF Len(found) = 0
        THEN ValueError("cannot get coordinate from cube")
        ELSE [c |-> found[1], dim |-> list_index(cube.dims, found[1])]

\* The part of iris VectorWind.__init__, gradient and truncate that finds
\* latitude and longitude and turns latitude north to south.
iris_orient(cube) ==
    LET la == dim_coord_and_dim(cube, "latitude")
        lo == dim_coord_and_dim(cube, "longitude")
    IN  IF IsError(la) THEN la
        ELSE IF IsError(lo) THEN lo
        ELSE LET rev == la.c.points[1] < la.c.points[2]
                 cube1 == IF rev THEN la_reverse(cube, la.dim) ELSE cube
                 la1 == IF rev THEN dim_coord_and_dim(cube1, "latitude") ELSE la
             IN  [cube |-> cube1, lat |-> la1.c, lat_dim |-> la1.dim,
                  lon_dim |-> lo.dim]

\* iris VectorWind.__init__
iris_init(u, v, rsphere) ==
    IF u.kind # "cube" \/ v.kind # "cube"
    THEN TypeError("u and v must be iris cubes")
    ELSE IF u.dims # v.dims
    THEN ValueError("u and v must have the same dimensions")
    ELSE LET la == dim_coord_and_dim(u, "latitude")
             lo == dim_coord_and_dim(v, "longitude")
         IN  IF IsError(la) THEN la
             ELSE IF IsError(lo) THEN lo
             ELSE LET rev == la.c.points[1] < la.c.points[2]
                      u1 == IF rev THEN la_reverse(u, la.dim) ELSE u
                      v1 == IF rev THEN la_reverse(v, la.dim) ELSE v
                      la1 == IF rev THEN dim_coord_and_dim(u1, "latitude")
                             ELSE la
                      gridtype == inspect_gridtype(la1.c.points)
                  IN  IF IsError(gridtype) THEN gridtype
                      ELSE LET ord == get_apiorder(Len(u1.data.shape),
                                                   la1.dim, lo.dim)
                               u2 == la_transpose(u1, ord[1])
                               v2 == la_transpose(v1, ord[1])
                               api == standard_init(to3d(u2.data),
                                                    to3d(v2.data),
                                                    gridtype.value, rsphere)
                           IN  IF IsError(api) THEN api
                               ELSE [cls |-> "iris",
                                     reorder |-> ord[2],
                                     ishape |-> u2.data.shape,
                                     coords |-> u2.dims,
                                     api |-> api]

\* _metadata turning the latitude axis (axis 0 of the engine's order) back
\* before the dimensions are put in the input's order.
iris_metadata_latitude_restored(self, var) ==
    LET cube == [kind |-> "cube", dims |-> self.coords,
                 data |-> np_reshape(var, self.ishape)]
    IN  la_transpose(la_reverse(cube, 0), self.reorder)

\* iris VectorWind._metadata
iris_metadata(self, var) ==
    LET cube == [kind |-> "cube", dims |-> self.coords,
                 data |-> np_reshape(var, self.ishape)]
    IN  la_transpose(cube, self.reorder)

\* iris VectorWind.gradient
iris_gradient(self, chi, truncation) ==
    IF chi.kind # "cube"
    THEN TypeError("scalar field must be an iris cube")
    ELSE LET o == iris_orient(chi)
         IN  IF IsError(o) THEN o
             ELSE LET ord == get_apiorder(Len(o.cube.data.shape),
                                          o.lat_dim, o.lon_dim)
                      chi1 == la_transpose(o.cube, ord[1])
                      ishape == chi1.data.shape
                      coords == chi1.dims
                      g == gradient(self.api, to3d(chi1.data), truncation)
                      gerr == gradient_error(self.api, to3d(chi1.data),
                                             truncation)
                      wrap(x) ==
                          la_transpose([kind |-> "cube", dims |-> coords,
                                        data |-> np_reshape(x, ishape)],
                                       ord[2])
                  IN  IF gerr # None THEN gerr
                      ELSE Ok(<<wrap(g[1]), wrap(g[2])>>)

\* iris VectorWind.truncate
iris_truncate(self, field, truncation) ==
    IF field.kind # "cube"
    THEN TypeError("scalar field must be an iris cube")
    ELSE LET o == iris_orient(field)
         IN  IF IsError(o) THEN o
             ELSE LET ord == get_apiorder(Len(o.cube.data.shape),
                                          o.lat_dim, o.lon_dim)
                      field1 == la_transpose(o.cube, ord[1])
                      ishape == field1.data.shape
                      fieldtrunc == truncate(self.api, to3d(field1.data),
                                             truncation)
                  IN  IF IsError(fieldtrunc) THEN fieldtrunc
                      ELSE Ok(la_transpose(
                                 [field1 EXCEPT
                                     !.data = np_reshape(fieldtrunc, ishape)],
                                 ord[2]))

-----------------------------------------------------------------------------
(* windspharm.xarray *)

\* The predicates of _find_latitude_coordinate / _find_longitude_coordinate.
xr_is_latitude(c) ==
    c.name \in {"latitude", "lat"} \/ c.axis = "Y"

xr_is_longitude(c) ==
    c.name \in {"longitude", "lon"} \/ c.axis = "X"

\* xarray._find_coord_and_dim
find_coord_and_dim(array, predicate(_), name) ==
    LET candidates == SelectSeq(array.dims, predicate)
    IN  IF Len(candidates) = 0
        THEN ValueError("cannot find a coordinate")
        ELSE IF Len(candidates) > 1
        THEN ValueError("multiple coordinates are not allowed")
        ELSE [c |-> candidates[1],
              dim |-> list_index([k \in 1..Len(array.dims) |->
                                     array.dims[k].name],
                                 candidates[1].name)]

find_latitude_coordinate(array) ==
    find_coord_and_dim(array, xr_is_latitude, "latitude")

find_longitude_coordinate(array) ==
    find_coord_and_dim(array, xr_is_longitude, "longitude")

\* DataArray.dims: the dimension names.
xr_dims(array) == [k \in 1..Len(array.dims) |-> array.dims[k].name]

\* DataArray.transpose(*names)
xr_transpose(array, names) ==
    la_transpose(array,
                 [k \in 1..Len(names) |-> list_index(xr_dims(array), names[k])])

\* The part of xarray VectorWind.__init__, gradient and truncate that finds
\* latitude and longitude, turns latitude north to south and puts the two
\* in front.
xr_orient(array) ==
    LET la == find_latitude_coordinate(array)
        lo == find_longitude_coordinate(array)
    IN  IF IsError(la) THEN la
        ELSE IF IsError(lo) THEN lo
        ELSE LET rev == la.c.points[1] < la.c.points[2]
                 a1 == IF rev THEN la_reverse(array, la.dim) ELSE array
                 la1 == IF rev THEN find_latitude_coordinate(a1) ELSE la
                 ord == get_apiorder(Len(a1.data.shape), la1.dim, lo.dim)
                 apiorder == [k \in 1..Len(ord[1]) |->
                                 xr_dims(a1)[ord[1][k] + 1]]
             IN  [lat |-> la1.c,
                  reorder |-> xr_dims(a1),
                  array |-> xr_transpose(a1, apiorder)]

\* xarray VectorWind.__init__
xarray_init(u, v, rsphere) ==
    IF u.kind # "dataarray" \/ v.kind # "dataarray"
    THEN TypeError("u and v must be xarray.DataArray instances")
    ELSE IF xr_dims(u) # xr_dims(v)
    THEN ValueError("u and v must have the same dimension coordinates")
    ELSE IF \E k \in 1..Len(u.dims) : u.dims[k].points # v.dims[k].points
    THEN ValueError("u and v must have the same dimension coordinate values")
    ELSE LET la == find_latitude_coordinate(u)
             lo == find_longitude_coordinate(u)
         IN  IF IsError(la) THEN la
             ELSE IF IsError(lo) THEN lo
             ELSE LET rev == la.c.points[1] < la.c.points[2]
                      u1 == IF rev THEN la_reverse(u, la.dim) ELSE u
                      v1 == IF rev THEN la_reverse(v, la.dim) ELSE v
                      la1 == IF rev THEN find_latitude_coordinate(u1) ELSE la
                      gridtype == inspect_gridtype(la1.c.points)
                  IN  IF IsError(gridtype) THEN gridtype
                      ELSE LET ord == get_apiorder(Len(u1.data.shape),
                                                   la1.dim, lo.dim)
                               apiorder == [k \in 1..Len(ord[1]) |->
                                               xr_dims(u1)[ord[1][k] + 1]]
                               u2 == xr_transpose(u1, apiorder)
                               v2 == xr_transpose(v1, apiorder)
                               api == standard_init(to3d(u2.data),
                                                    to3d(v2.data),
                                                    gridtype.value, rsphere)
                           IN  IF IsError(api) THEN api
                               ELSE [cls |-> "xarray",
                                     reorder |-> xr_dims(u1),
                                     ishape |-> u2.data.shape,
                                     coords |-> u2.dims,
                                     api |-> api]

\* _metadata without the transposition back to the input's order.
xarray_metadata_api_order(self, var) ==
    [kind |-> "dataarray", dims |-> self.coords,
     data |-> np_reshape(var, self.ishape)]

\* xarray VectorWind._metadata
xarray_metadata(self, var) ==
    xr_transpose([kind |-> "dataarray", dims |-> self.coords,
                  data |-> np_reshape(var, self.ishape)],
                 self.reorder)

\* xarray VectorWind.gradient
xarray_gradient(self, chi, truncation) ==
    IF chi.kind # "dataarray"
    THEN TypeError("scalar field must be an xarray.DataArray")
    ELSE LET o == xr_orient(chi)
         IN  IF IsError(o) THEN o
             ELSE LET ishape == o.array.data.shape
                      coords == o.array.dims
                      g == gradient(self.api, to3d(o.array.data), truncation)
                      gerr == gradient_error(self.api, to3d(o.array.data),
                                             truncation)
                      wrap(x) ==
                          xr_transpose([kind |-> "dataarray", dims |-> coords,
                                        data |-> np_reshape(x, ishape)],
                                       o.reorder)
                  IN  IF gerr # None THEN gerr
                      ELSE Ok(<<wrap(g[1]), wrap(g[2])>>)

\* xarray VectorWind.truncate
xarray_truncate(self, field, truncation) ==
    IF field.kind # "dataarray"
    THEN TypeError("scalar field must be an xarray.Dataset")
    ELSE LET o == xr_orient(field)
         IN  IF IsError(o) THEN o
             ELSE LET ishape == o.array.data.shape
                      fieldtrunc == truncate(self.api, to3d(o.array.data),
                                             truncation)
                  IN  IF IsError(fieldtrunc) THEN fieldtrunc
                      ELSE Ok(xr_transpose(
                                 [o.array EXCEPT
                                     !.data = np_reshape(fieldtrunc, ishape)],
                                 o.reorder))

-----------------------------------------------------------------------------
(* windspharm.cdms *)

\* The character cdms2 gives an axis in getOrder().
cdms_order_char(c) ==
    CASE c.axis = "Y" -> "y"
      [] c.axis = "X" -> "x"
      [] c.axis = "T" -> "t"
      [] c.axis = "Z" -> "z"
      [] OTHER -> "-"

\* variable.getOrder()
getOrder(var) == [k \in 1..Len(var.dims) |-> cdms_order_char(var.dims[k])]

\* The axes (0-based) that variable.reorder(order) puts in front, one per
\* character of order: the first axis of that kind not taken yet.
RECURSIVE MatchOrder(_, _, _)
MatchOrder(have, want, taken) ==
    IF want = <<>> THEN <<>>
    ELSE LET k == CHOOSE k \in 1..Len(have) :
                      /\ have[k] = Head(want)
                      /\ k \notin taken
                      /\ \A j \in 1..(k - 1) :
                             have[j] = Head(want) => j \in taken
         IN  <<k - 1>> \o MatchOrder(have, Tail(want), taken \cup {k})

\* variable.reorder(order): the axes matched by order go in front, the
\* axes order does not mention follow in the order they had.
cdms_reorder(var, order) ==
    LET front == MatchOrder(getOrder(var), order, {})
        rest == SelectSeq(Range(Len(var.dims)),
                          LAMBDA k : \A j \in 1..Len(front) : front[j] # k)
    IN  la_transpose(var, front \o rest)

\* 'yx' + ''.join([a for a in order if a not in 'xy'])
cdms_apiorder(order) ==
    <<"y", "x">> \o SelectSeq(order, LAMBDA a : a \notin {"x", "y"})

\* variable(latitude=(90, -90)): the region from north to south.
cdms_north_to_south(var) ==
    LET dim == list_index(getOrder(var), "y")
        lat == var.dims[dim + 1].points
    IN  IF lat[1] < lat[Len(lat)] THEN la_reverse(var, dim) ELSE var

\* The part of cdms VectorWind.gradient and truncate that checks the field
\* and lays it out for the engine.
cdms_orient(var) ==
    LET order == getOrder(var)
    IN  IF ~str_contains(order, "x") \/ ~str_contains(order, "y")
        THEN ValueError("a latitude-longitude grid is required")
        ELSE [order |-> order,
              var |-> cdms_north_to_south(
                          cdms_reorder(var, cdms_apiorder(order)))]

\* cdms VectorWind.__init__
cdms_init(u, v, rsphere) ==
    IF ~(u.kind = "cdms" /\ v.kind = "cdms")
    THEN TypeError("u and v must be cdms2 variables")
    ELSE LET uorder == getOrder(u)
             vorder == getOrder(v)
         IN  IF uorder # vorder
             THEN ValueError("u and v must have the same dimension order")
             ELSE IF ~str_contains(uorder, "x") \/ ~str_contains(uorder, "y")
             THEN ValueError("a latitude-longitude grid is required")
             ELSE LET apiorder == cdms_apiorder(vorder)
                      u1 == cdms_north_to_south(cdms_reorder(u, apiorder))
                      v1 == cdms_north_to_south(cdms_reorder(v, apiorder))
                      lat == u1.dims[list_index(getOrder(u1), "y") + 1]
                      gridtype == inspect_gridtype(lat.points)
                  IN  IF IsError(gridtype) THEN gridtype
                      ELSE LET api == standard_init(to3d(u1.data),
                                                    to3d(v1.data),
                                                    gridtype.value, rsphere)
                           IN  IF IsError(api) THEN api
                               ELSE [cls |-> "cdms",
                                     order |-> uorder,
                                     ishape |-> u1.data.shape,
                                     axes |-> u1.dims,
                                     api |-> api]

\* cdms VectorWind._metadata
cdms_metadata(self, var) ==
    cdms_reorder([kind |-> "cdms", dims |-> self.axes,
                  data |-> np_reshape(var, self.ishape)],
                 self.order)

\* cdms VectorWind.gradient
cdms_gradient(self, chi, truncation) ==
    IF chi.kind # "cdms"
    THEN TypeError("scalar field must be a cdms2 variable")
    ELSE LET o == cdms_orient(chi)
         IN  IF IsError(o) THEN o
             ELSE LET ishape == o.var.data.shape
                      axes == o.var.dims
                      g == gradient(self.api, to3d(o.var.data), truncation)
                      gerr == gradient_error(self.api, to3d(o.var.data),
                                             truncation)
                      wrap(x) ==
                          cdms_reorder([kind |-> "cdms", dims |-> axes,
                                        data |-> np_reshape(x, ishape)],
                                       o.order)
                  IN  IF gerr # None THEN gerr
                      ELSE Ok(<<wrap(g[1]), wrap(g[2])>>)

\* truncate that takes any array with axes without asking what it is.
cdms_truncate_unchecked(self, field, truncation) ==
    LET o == cdms_orient(field)
    IN  IF IsError(o) THEN o
        ELSE LET ishape == o.var.data.shape
                 fieldtrunc == truncate(self.api, to3d(o.var.data),
                                        truncation)
             IN  IF IsError(fieldtrunc) THEN fieldtrunc
                 ELSE Ok(cdms_reorder(
                            [o.var EXCEPT
                                !.data = np_reshape(fieldtrunc, ishape)],
                            o.order))

\* cdms VectorWind.truncate
cdms_truncate(self, field, truncation) ==
    IF field.kind # "cdms"
    THEN TypeError("scalar field must be a cdms2 variable")
    ELSE LET o == cdms_orient(field)
         IN  IF IsError(o) THEN o
             ELSE LET ishape == o.var.data.shape
                      fieldtrunc == truncate(self.api, to3d(o.var.data),
                                             truncation)
                  IN  IF IsError(fieldtrunc) THEN fieldtrunc
                      ELSE Ok(cdms_reorder(
                                 [o.var EXCEPT
                                     !.data = np_reshape(fieldtrunc, ishape)],
                                 o.order))

-----------------------------------------------------------------------------
(* The engine session: u, v, a grid type and a radius are chosen, the      *)
(* engine is constructed, then its methods are called in any order.        *)

MaxNlon == 4

\* Ways an input array can carry a missing value: a plain array, a masked
\* array with nothing masked, a NaN or a masked element at either end.
MissKinds == {"none", "clean", "nan_first", "nan_last",
              "masked_first", "masked_last"}

\* An input array of the given shape; its elements are base, base+1, ...
Field(shape, base, miss) ==
    LET n == np_prod(shape)
        pos == IF miss \in {"nan_first", "masked_first"} THEN 1 ELSE n
        plain == [o \in 1..n |->
                     IF miss \in {"nan_first", "nan_last"} /\ o = pos
                     THEN NaN ELSE Num(base + o - 1)]
    IN  IF miss \in {"none", "nan_first", "nan_last"}
        THEN [shape |-> shape, flat |-> plain]
        ELSE [shape |-> shape, flat |-> plain,
              mask  |-> [o \in 1..n |->
                            miss \in {"masked_first", "masked_last"}
                            /\ o = pos]]

\* How u and v carry missing values: one of them in each of the ways, or
\* both masked arrays with nothing masked.
MissPairs ==
    {<<m, "none">> : m \in MissKinds} \cup {<<"none", m>> : m \in MissKinds}
    \cup {<<"clean", "clean">>, <<"nan_last", "masked_first">>}

\* Shapes of rank 1 to 4 around the smallest grid the transform accepts.
EngineShapes ==
    UNION {{<<nlat>>, <<nlat, nlon>>} \cup
           UNION {{<<nlat, nlon, nt>>, <<nlat, nlon, nt, 1>>} : nt \in 1..MaxNt}
           : <<nlat, nlon>> \in (2..MaxNlat) \X ((MinNlon - 1)..MaxNlon)}

\* Shapes v can have next to a u of shape us: the same, one latitude row
\* less, one more axis.
VShapes(us) ==
    {us, us \o <<1>>} \cup
    (IF us[1] > 1 THEN {[us EXCEPT ![1] = us[1] - 1]} ELSE {})

GridTypeArgs == {"regular", "gaussian", "Regular", "curvilinear"}

\* The default radius, in metres, and another one.
DefaultRsphere == 6371200

Radii == {DefaultRsphere, 398200}

\* How u and v carry missing values, the grid type and the radius given
\* together: every grid type with plain arrays and the default radius, the
\* other radius once, and every way of carrying missing values once.
EngineConfigs ==
    {<<"none", "none", g, DefaultRsphere>> : g \in GridTypeArgs}
    \cup {<<"none", "none", "gaussian", r>> : r \in Radii}
    \cup {<<m[1], m[2], "regular", DefaultRsphere>> : m \in MissPairs}

\* The truncation arguments tried on an engine.
Truncations(self) == {None, IntVal(1), IntVal(self.s.nlat - 1)}

\* The truncation arguments tried with a scalar field.
FieldTruncations == {None, IntVal(1)}

\* The scalar fields tried on an engine: its own grid with and without a
\* third axis, a grid one row short, one column wide, and a rank-4 array.
ScalarFields(self) ==
    LET nlat == self.s.nlat
        nlon == self.s.nlon
        shapes == {<<nlat, nlon>>, <<nlat - 1, nlon>>, <<nlat, nlon + 1>>,
                   <<nlat, nlon, 1, 1>>}
                  \cup {<<nlat, nlon, n>> : n \in 1..MaxNt}
    IN  {Field(sh, 200, "none") : sh \in shapes}
        \cup {Field(<<nlat, nlon>>, 200, m) : m \in MissKinds}
        \cup {Field(<<nlat - 1, nlon>>, 200, "nan_first"),
              Field(<<nlat, nlon, MaxNt>>, 200, "masked_last")}

EngineIdle ==
    /\ e_pc = "idle"
    /\ e_args = None
    /\ e_self = None
    /\ e_call = None
    /\ e_ret = None

\* numpy.concatenate of n copies of a 2-D field along a new last axis.
Stack(field, n) ==
    [shape |-> field.shape \o <<n>>,
     flat  |-> [o \in 1..(np_prod(field.shape) * n) |->
                   field.flat[((o - 1) \div n) + 1]]]

\* The winds given to the constructor: u and v of any of the shapes with
\* elements that all differ, or the same 2-D u and v stacked 1 to MaxNt
\* times on a grid the transform accepts.
EngineStart ==
    /\ e_pc = "new"
    /\ \/ \E us \in EngineShapes, c \in EngineConfigs :
            \E vs \in VShapes(us) :
              e_args = [u |-> Field(us, 0, c[1]), v |-> Field(vs, 100, c[2]),
                        gridtype |-> c[3], rsphere |-> c[4]]
       \/ \E nlat \in MinNlat..MaxNlat, n \in 1..MaxNt, g \in GridTypes :
            e_args = [u |-> Stack(Field(<<nlat, MinNlon>>, 0, "none"), n),
                      v |-> Stack(Field(<<nlat, MinNlon>>, 100, "none"), n),
                      gridtype |-> g, rsphere |-> DefaultRsphere]
    /\ e_self = None
    /\ e_call = None
    /\ e_ret = None

Construct ==
    /\ e_pc = "new"
    /\ LET r == standard_init(e_args.u, e_args.v, e_args.gridtype,
                              e_args.rsphere)
       IN  IF IsError(r)
           THEN e_pc' = "failed" /\ e_self' = None /\ e_ret' = r
           ELSE e_pc' = "built" /\ e_self' = r /\ e_ret' = None
    /\ e_call' = [op |-> "__init__"]
    /\ UNCHANGED <<e_args, toolsVars, gridVars, adapterVars,
                   instanceVars, latdimVars, attributeVars, apiorderVars>>

\* A method call that takes nothing but an optional truncation.
Call(op, R(_, _)) ==
    /\ e_pc = "built"
    /\ \E t \in Truncations(e_self) :
         /\ e_call' = [op |-> op, truncation |-> t]
         /\ e_ret' = R(e_self, t)
         /\ e_self' = instance_after(e_self, [op |-> op, truncation |-> t])
    /\ UNCHANGED <<e_pc, e_args, toolsVars, gridVars, adapterVars,
                   instanceVars, latdimVars, attributeVars, apiorderVars>>

\* A method call that takes a scalar field and an optional truncation.
CallField(op, R(_, _, _)) ==
    /\ e_pc = "built"
    /\ \E f \in ScalarFields(e_self), t \in FieldTruncations :
         /\ e_call' = [op |-> op, field |-> f, truncation |-> t]
         /\ e_ret' = R(e_self, f, t)
         /\ e_self' = instance_after(e_self,
                                     [op |-> op, field |-> f,
                                      truncation |-> t])
    /\ UNCHANGED <<e_pc, e_args, toolsVars, gridVars, adapterVars,
                   instanceVars, latdimVars, attributeVars, apiorderVars>>

Magnitude ==
    /\ e_pc = "built"
    /\ e_call' = [op |-> "magnitude"]
    /\ e_ret' = magnitude(e_self)
    /\ e_self' = instance_after(e_self, [op |-> "magnitude"])
    /\ UNCHANGED <<e_pc, e_args, toolsVars, gridVars, adapterVars,
                   instanceVars, latdimVars, attributeVars, apiorderVars>>

\* The values given for omega: none, the default written out, zero,
\* another number, a string and a list.
Omegas ==
    {None, Num(DefaultOmega), Num(0), Num(100), [str |-> "fast"],
     [list |-> <<Num(1)>>]}

Planetaryvorticity ==
    /\ e_pc = "built"
    /\ \E omega \in Omegas :
         /\ e_call' = [op |-> "planetaryvorticity", omega |-> omega]
         /\ e_ret' = planetaryvorticity(e_self, omega)
         /\ e_self' = instance_after(e_self, [op |-> "planetaryvorticity",
                                              omega |-> omega])
    /\ UNCHANGED <<e_pc, e_args, toolsVars, gridVars, adapterVars,
                   instanceVars, latdimVars, attributeVars, apiorderVars>>

Absolutevorticity ==
    /\ e_pc = "built"
    /\ \E omega \in Omegas, t \in Truncations(e_self) :
         /\ e_call' = [op |-> "absolutevorticity", omega |-> omega,
                       truncation |-> t]
         /\ e_ret' = absolutevorticity(e_self, omega, t)
         /\ e_self' = instance_after(e_self, [op |-> "absolutevorticity",
                                              omega |-> omega,
                                              truncation |-> t])
    /\ UNCHANGED <<e_pc, e_args, toolsVars, gridVars, adapterVars,
                   instanceVars, latdimVars, attributeVars, apiorderVars>>

Vrtdiv == Call("vrtdiv", vrtdiv)

Vorticity == Call("vorticity", vorticity)

Divergence == Call("divergence", divergence)

Sfvp == Call("sfvp", sfvp)

Streamfunction == Call("streamfunction", streamfunction)

Velocitypotential == Call("velocitypotential", velocitypotential)

Helmholtz == Call("helmholtz", helmholtz)

Irrotationalcomponent == Call("irrotationalcomponent", irrotationalcomponent)

Nondivergentcomponent == Call("nondivergentcomponent", nondivergentcomponent)

Gradient == CallField("gradient", gradient)

Truncate == CallField("truncate", truncate)

EngineNext ==
    \/ Construct
    \/ Magnitude
    \/ Vrtdiv
    \/ Vorticity
    \/ Divergence
    \/ Planetaryvorticity
    \/ Absolutevorticity
    \/ Sfvp
    \/ Streamfunction
    \/ Velocitypotential
    \/ Helmholtz
    \/ Irrotationalcomponent
    \/ Nondivergentcomponent
    \/ Gradient
    \/ Truncate

-----------------------------------------------------------------------------
(* The adapter session: an interface and labelled u, v are chosen, the     *)
(* interface's VectorWind is constructed, then one of its methods is       *)
(* called.                                                                 *)

Interfaces == {"iris", "xarray", "cdms"}

\* The container an interface works on.
ContainerOf(cls) ==
    CASE cls = "iris" -> "cube"
      [] cls = "xarray" -> "dataarray"
      [] cls = "cdms" -> "cdms"

\* Latitude points tried: the global grids in both directions (the Gaussian
\* latitudes of three points are equally spaced, so four are taken), two
\* latitudes only, half the globe, and points that are not monotonic.
LatPoints ==
    {equal_reference(MinNlat), Reversed(equal_reference(MinNlat)),
     gaussian_lats(MinNlat + 1), Reversed(gaussian_lats(MinNlat + 1)),
     equal_reference(MinNlat - 1), half_reference(MinNlat),
     <<0, Deg90, -Deg90>>}

\* Longitude points: nlon equally spaced values from 0.
LonPoints(nlon) == [k \in 1..nlon |-> (k - 1) * ((4 * Deg90) \div nlon)]

LatCoord(points) == Coord("latitude", points, "Y")

LonCoord(nlon) == Coord("longitude", LonPoints(nlon), "X")

\* The k-th dimension that is neither latitude nor longitude.
ExtraCoord(k, size) ==
    Coord(CASE k = 1 -> "time" [] k = 2 -> "level" [] OTHER -> "member",
          [p \in 1..size |-> p - 1],
          CASE k = 1 -> "T" [] k = 2 -> "Z" [] OTHER -> "")

Perms(n) == {p \in [1..n -> 1..n] : \A i, j \in 1..n : p[i] = p[j] => i = j}

\* Every ordering of a latitude, a longitude and up to MaxExtraDims other
\* dimension coordinates of MaxNt points each.
DimLists(lat, lon) ==
    UNION {{[k \in 1..(2 + ne) |-> (<<lat, lon>> \o
                [e \in 1..ne |-> ExtraCoord(e, MaxNt)])[p[k]]]
            : p \in Perms(2 + ne)}
           : ne \in 0..MaxExtraDims}

\* The labelled array of the given container kind and dimensions.
LabelledArray(kind, dims, base) ==
    [kind |-> kind, dims |-> dims,
     data |-> Field([k \in 1..Len(dims) |-> Len(dims[k].points)], base, "none")]

\* The dimension coordinates of the smallest global grid and one of time.
BaseLat == LatCoord(equal_reference(MinNlat))

BaseLon == LonCoord(MinNlon)

BaseTime == ExtraCoord(1, MaxNt)

BaseDims == <<BaseTime, BaseLat, BaseLon>>

\* A second coordinate that reads as a latitude, and one as a longitude.
SecondLat == Coord("grid_latitude", equal_reference(MinNlat), "Y")

SecondLon == Coord("grid_longitude", LonPoints(MinNlon), "X")

\* Dimension coordinates without a latitude, without a longitude, with two
\* latitudes and with two longitudes.
GridlessDims ==
    {<<BaseTime, BaseLon>>, <<BaseLat, BaseTime>>,
     <<BaseLat, SecondLat, BaseLon>>, <<BaseLon, BaseLat, SecondLon>>}

\* Dimension coordinates that differ from BaseDims: in their order, in the
\* values of time, in the direction of latitude, in the name of time.
MismatchedDims ==
    {<<BaseLat, BaseTime, BaseLon>>,
     <<Coord("time", [p \in 1..MaxNt |-> p + 4], "T"), BaseLat, BaseLon>>,
     <<BaseTime, LatCoord(Reversed(equal_reference(MinNlat))), BaseLon>>,
     <<Coord("forecast_time", BaseTime.points, "T"), BaseLat, BaseLon>>}

\* The containers that are not the interface's own.
OtherContainers(cls) ==
    ({"ndarray"} \cup {ContainerOf(c) : c \in Interfaces}) \ {ContainerOf(cls)}

\* Pairs u, v an interface must refuse: one or both of another container
\* kind, the two on different dimension coordinates, both without a grid.
InvalidWinds(cls) ==
    LET own == ContainerOf(cls)
    IN  UNION {{<<LabelledArray(k, BaseDims, 0), LabelledArray(own, BaseDims, 100)>>,
                <<LabelledArray(own, BaseDims, 0), LabelledArray(k, BaseDims, 100)>>}
               : k \in OtherContainers(cls)}
        \cup {<<LabelledArray("ndarray", <<BaseTime, BaseLon>>, 0),
                LabelledArray("ndarray", <<BaseLat, BaseTime, BaseLon>>, 100)>>}
        \cup {<<LabelledArray(own, BaseDims, 0), LabelledArray(own, d, 100)>>
               : d \in MismatchedDims}
        \cup {<<LabelledArray(own, d, 0), LabelledArray(own, d, 100)>>
               : d \in GridlessDims}

AdapterIdle ==
    /\ a_pc = "idle"
    /\ a_args = None
    /\ a_w = None
    /\ a_call = None
    /\ a_ret = None

AdapterStart ==
    /\ a_pc = "new"
    /\ \/ \E cls \in Interfaces, lat \in LatPoints,
             nlon \in (MinNlon - 1)..MinNlon :
            \E dims \in DimLists(LatCoord(lat), LonCoord(nlon)) :
              a_args = [cls |-> cls,
                        u |-> LabelledArray(ContainerOf(cls), dims, 0),
                        v |-> LabelledArray(ContainerOf(cls), dims, 100),
                        rsphere |-> DefaultRsphere]
       \/ \E cls \in Interfaces :
            \E p \in InvalidWinds(cls) :
              a_args = [cls |-> cls, u |-> p[1], v |-> p[2],
                        rsphere |-> DefaultRsphere]
    /\ a_w = None
    /\ a_call = None
    /\ a_ret = None

\* VectorWind(u, v) of the chosen interface.
adapter_init(cls, u, v, rsphere) ==
    CASE cls = "iris" -> iris_init(u, v, rsphere)
      [] cls = "xarray" -> xarray_init(u, v, rsphere)
      [] cls = "cdms" -> cdms_init(u, v, rsphere)

\* self._metadata(var, ...) of the interface self belongs to.
adapter_metadata(self, var) ==
    CASE self.cls = "iris" -> iris_metadata(self, var)
      [] self.cls = "xarray" -> xarray_metadata(self, var)
      [] self.cls = "cdms" -> cdms_metadata(self, var)

\* The diagnostics every interface offers, and those taking a truncation.
DiagnosticNames ==
    {"u", "v", "magnitude", "vrtdiv", "vorticity", "divergence", "sfvp",
     "streamfunction", "velocitypotential", "helmholtz",
     "irrotationalcomponent", "nondivergentcomponent"}

NoTruncation == {"u", "v", "magnitude"}

\* The engine call behind a diagnostic; its results as a tuple.
api_call(api, name, t) ==
    CASE name = "u" -> <<api.u>>
      [] name = "v" -> <<api.v>>
      [] name = "magnitude" -> <<magnitude(api)>>
      [] name = "vrtdiv" -> vrtdiv(api, t)
      [] name = "vorticity" -> <<vorticity(api, t)>>
      [] name = "divergence" -> <<divergence(api, t)>>
      [] name = "sfvp" -> sfvp(api, t)
      [] name = "streamfunction" -> <<streamfunction(api, t)>>
      [] name = "velocitypotential" -> <<velocitypotential(api, t)>>
      [] name = "helmholtz" -> helmholtz(api, t)
      [] name = "irrotationalcomponent" -> irrotationalcomponent(api, t)
      [] name = "nondivergentcomponent" -> nondivergentcomponent(api, t)

\* Each component of an engine result passed through _metadata.
metadata_each(self, r) == [k \in 1..Len(r) |-> adapter_metadata(self, r[k])]

\* A diagnostic method of an interface: the engine's result, each component
\* passed through _metadata.
adapter_diagnostic(self, name, t) ==
    metadata_each(self, api_call(self.api, name, t))

adapter_gradient(self, chi, t) ==
    CASE self.cls = "iris" -> iris_gradient(self, chi, t)
      [] self.cls = "xarray" -> xarray_gradient(self, chi, t)
      [] self.cls = "cdms" -> cdms_gradient(self, chi, t)

adapter_truncate(self, field, t) ==
    CASE self.cls = "iris" -> iris_truncate(self, field, t)
      [] self.cls = "xarray" -> xarray_truncate(self, field, t)
      [] self.cls = "cdms" -> cdms_truncate(self, field, t)

\* The truncation arguments tried on an interface.
AdapterTruncations == {None, IntVal(1)}

\* The latitude coordinate among the dimension coordinates.
LatOf(dims) == dims[CHOOSE k \in 1..Len(dims) : dims[k].name = "latitude"]

\* Dimension orders of a scalar field: latitude and longitude alone in
\* both orders, and with another dimension before and after them.
FieldDimLists(lat, lon) ==
    {<<lat, lon>>, <<lon, lat>>,
     <<ExtraCoord(1, MaxNt), lat, lon>>, <<lon, lat, ExtraCoord(1, MaxNt)>>}

\* The scalar fields tried on an interface: on the latitudes of u in either
\* direction, and a plain array.
AdapterFields(args) ==
    LET lat == LatOf(args.u.dims).points
        dimlists == FieldDimLists(LatCoord(lat), LonCoord(MinNlon))
                    \cup FieldDimLists(LatCoord(Reversed(lat)),
                                       LonCoord(MinNlon))
    IN  {LabelledArray(ContainerOf(args.cls), d, 200) : d \in dimlists}
        \cup {LabelledArray("ndarray", args.u.dims, 200)}

\* Scalar fields an interface must refuse: without a grid, of another
\* container kind, and on a grid of other extents than the wind's.
AdapterBadFields(args) ==
    {LabelledArray(ContainerOf(args.cls), d, 200) : d \in GridlessDims}
    \cup {LabelledArray(k, <<BaseLat, BaseLon>>, 200)
           : k \in OtherContainers(args.cls)}
    \cup {LabelledArray("ndarray", <<BaseTime, BaseLon>>, 200),
           LabelledArray(ContainerOf(args.cls),
                         <<LatCoord(equal_reference(MinNlat - 1)), BaseLon>>,
                         200),
           LabelledArray(ContainerOf(args.cls),
                         <<LonCoord(MinNlon + 1), LatOf(args.u.dims)>>, 200)}

\* The field and truncation given to gradient and truncate: every field
\* with every truncation, the fields to refuse with the default one.
AdapterFieldCalls(args) ==
    (AdapterFields(args) \X AdapterTruncations)
    \cup (AdapterBadFields(args) \X {None})

\* The constructor ends: the instance is kept, or the error raised is.
AdapterBuilt(r) ==
    IF IsError(r)
    THEN a_pc' = "failed" /\ a_w' = None /\ a_ret' = r
    ELSE a_pc' = "built" /\ a_w' = r /\ a_ret' = None

\* gradient or truncate ends: the arrays returned are kept, or the error.
AdapterReturned(r) ==
    IF IsError(r)
    THEN a_pc' = "raised" /\ a_ret' = r
    ELSE a_pc' = "returned" /\ a_ret' = r.value

\* The one array a call returned, as a tuple.
OneTuple(r) == IF IsError(r) THEN r ELSE Ok(<<r.value>>)

AdapterConstruct ==
    /\ a_pc = "new"
    /\ AdapterBuilt(adapter_init(a_args.cls, a_args.u, a_args.v,
                                 a_args.rsphere))
    /\ a_call' = [op |-> "__init__"]
    /\ UNCHANGED <<a_args, toolsVars, gridVars, engineVars,
                   instanceVars, latdimVars, attributeVars, apiorderVars>>

AdapterDiagnostic ==
    /\ a_pc = "built"
    /\ \E name \in DiagnosticNames :
         \E t \in IF name \in NoTruncation THEN {None} ELSE AdapterTruncations :
           /\ a_call' = [op |-> name, truncation |-> t]
           /\ a_ret' = adapter_diagnostic(a_w, name, t)
    /\ a_pc' = "returned"
    /\ UNCHANGED <<a_args, a_w, toolsVars, gridVars, engineVars,
                   instanceVars, latdimVars, attributeVars, apiorderVars>>

AdapterGradient ==
    /\ a_pc = "built"
    /\ \E c \in AdapterFieldCalls(a_args) :
         /\ a_call' = [op |-> "gradient", field |-> c[1], truncation |-> c[2]]
         /\ AdapterReturned(adapter_gradient(a_w, c[1], c[2]))
    /\ UNCHANGED <<a_args, a_w, toolsVars, gridVars, engineVars,
                   instanceVars, latdimVars, attributeVars, apiorderVars>>

AdapterTruncate ==
    /\ a_pc = "built"
    /\ \E c \in AdapterFieldCalls(a_args) :
         /\ a_call' = [op |-> "truncate", field |-> c[1], truncation |-> c[2]]
         /\ AdapterReturned(OneTuple(adapter_truncate(a_w, c[1], c[2])))
    /\ UNCHANGED <<a_args, a_w, toolsVars, gridVars, engineVars,
                   instanceVars, latdimVars, attributeVars, apiorderVars>>

AdapterNext ==
    \/ AdapterConstruct
    \/ AdapterDiagnostic
    \/ AdapterGradient
    \/ AdapterTruncate

-----------------------------------------------------------------------------
(* Two instances side by side: each is an engine or an interface's         *)
(* VectorWind, constructed once and then called any number of times, the   *)
(* calls on the two in any order.                                          *)

Instances == {"A", "B"}

\* The dimensions of the wind an interface is constructed from: for iris
\* (latitude, longitude) north to south, for the others (time, longitude,
\* latitude) south to north.
InstanceDims(cls) ==
    IF cls = "iris" THEN <<BaseLat, BaseLon>>
    ELSE <<BaseTime, BaseLon, LatCoord(Reversed(equal_reference(MinNlat)))>>

\* What an instance is constructed from: the engine from plain arrays and
\* a grid type, each interface from labelled arrays.
InstanceConfigs ==
    {[cls |-> "standard",
      u |-> Field(<<MinNlat, MinNlon, MaxNt>>, 0, "none"),
      v |-> Field(<<MinNlat, MinNlon, MaxNt>>, 100, "none"),
      gridtype |-> "regular", rsphere |-> DefaultRsphere]}
    \cup {[cls |-> cls,
           u |-> LabelledArray(ContainerOf(cls), InstanceDims(cls), 0),
           v |-> LabelledArray(ContainerOf(cls), InstanceDims(cls), 100),
           rsphere |-> DefaultRsphere]
          : cls \in Interfaces}

\* VectorWind(...) of the module chosen.
instance_init(args) ==
    IF args.cls = "standard"
    THEN standard_init(args.u, args.v, args.gridtype, args.rsphere)
    ELSE adapter_init(args.cls, args.u, args.v, args.rsphere)

\* A diagnostic of the instance, its results as a tuple.
instance_diagnostic(w, name, t) ==
    IF IsEngine(w) THEN api_call(w, name, t)
    ELSE adapter_diagnostic(w, name, t)

\* gradient of the instance.
instance_gradient(w, chi, t) ==
    IF IsEngine(w) THEN gradient(w, chi, t)
    ELSE adapter_gradient(w, chi, t).value

\* truncate of the instance, its result as a tuple.
instance_truncate(w, field, t) ==
    IF IsEngine(w) THEN <<truncate(w, field, t)>>
    ELSE <<adapter_truncate(w, field, t).value>>

\* An assignment that binds the name in every instance (an attribute of the
\* class).
instance_store_shared(ws, i, w) == [j \in DOMAIN ws |-> w]

\* self.<name> = w: the attribute of this instance is bound, those of other
\* instances are left alone.
instance_store(ws, i, w) == [ws EXCEPT ![i] = w]

\* The diagnostics called on the two instances.
InstanceDiagnostics == {"u", "vorticity"}

\* The scalar field given to an instance: laid out as its wind is not.
InstanceFields(args) ==
    IF args.cls = "standard"
    THEN {Field(<<MinNlat, MinNlon>>, 200, "none")}
    ELSE IF Len(args.u.dims) = 2
    THEN {LabelledArray(ContainerOf(args.cls),
                        <<BaseLon, LatCoord(Reversed(equal_reference(MinNlat))),
                          BaseTime>>, 200)}
    ELSE {LabelledArray(ContainerOf(args.cls), <<BaseLat, BaseLon>>, 200)}

\* The calls made on an instance.
InstanceCalls(args) ==
    {[op |-> name, truncation |-> None] : name \in InstanceDiagnostics}
    \cup {[op |-> op, field |-> f, truncation |-> None]
          : op \in {"gradient", "truncate"}, f \in InstanceFields(args)}

InstancesIdle ==
    /\ i_args = None
    /\ i_w = None
    /\ i_id = None
    /\ i_next = 0
    /\ i_call = None
    /\ i_ret = None

InstancesStart ==
    /\ i_args \in [Instances -> InstanceConfigs]
    /\ i_w = [i \in Instances |-> None]
    /\ i_id = [i \in Instances |-> 0]
    /\ i_next = 1
    /\ i_call = [i \in Instances |-> None]
    /\ i_ret = [i \in Instances |-> None]

\* w = VectorWind(...): the instance creates its engine, a new object.
InstanceConstruct(i) ==
    /\ i_w[i] = None
    /\ i_w' = instance_store(i_w, i, instance_init(i_args[i]))
    /\ i_id' = instance_store(i_id, i, i_next)
    /\ i_next' = i_next + 1
    /\ UNCHANGED <<i_args, i_call, i_ret, toolsVars, gridVars, engineVars,
                   adapterVars, latdimVars, attributeVars, apiorderVars>>

\* A gradient or truncate has been called on the instance.
FieldGiven(i) ==
    /\ i_call[i] # None
    /\ i_call[i].op \in {"gradient", "truncate"} \/ i_call[i].after_field

\* A method call on a constructed instance has returned r; the call is
\* kept with a note of whether a gradient or truncate came before it.
InstanceCalled(i, call, r) ==
    /\ i_call' = [i_call EXCEPT
                     ![i] = call @@ ("after_field" :> FieldGiven(i))]
    /\ i_ret' = [i_ret EXCEPT ![i] = r]
    /\ i_w' = instance_store(i_w, i, instance_after(i_w[i], call))
    /\ UNCHANGED <<i_args, i_id, i_next, toolsVars, gridVars, engineVars,
                   adapterVars, latdimVars, attributeVars, apiorderVars>>

InstanceDiagnostic ==
    \E i \in Instances :
      \E call \in InstanceCalls(i_args[i]) :
        /\ i_w[i] # None
        /\ call.op \in InstanceDiagnostics
        /\ InstanceCalled(i, call,
                          instance_diagnostic(i_w[i], call.op,
                                              call.truncation))

InstanceGradient ==
    \E i \in Instances :
      \E call \in InstanceCalls(i_args[i]) :
        /\ i_w[i] # None
        /\ call.op = "gradient"
        /\ InstanceCalled(i, call,
                          instance_gradient(i_w[i], call.field,
                                            call.truncation))

InstanceTruncate ==
    \E i \in Instances :
      \E call \in InstanceCalls(i_args[i]) :
        /\ i_w[i] # None
        /\ call.op = "truncate"
        /\ InstanceCalled(i, call,
                          instance_truncate(i_w[i], call.field,
                                            call.truncation))

InstancesNext ==
    \/ \E i \in Instances : InstanceConstruct(i)
    \/ InstanceDiagnostic
    \/ InstanceGradient
    \/ InstanceTruncate

-----------------------------------------------------------------------------
(* tools.reverse_latdim and tools.order_latdim.  An array here is a view   *)
(* of a buffer as numpy has it: the buffer, the shape, the stride of each  *)
(* axis and the offset of the first element, so that a copy and a view of  *)
(* the caller's array can be told apart.                                   *)

\* The strides of a C-ordered array of the given shape.
c_strides(shape) == [k \in 1..Len(shape) |-> ProdFrom(shape, k + 1)] \o <<>>

\* The array that is the whole of buffer b, of the given shape.
nd_whole(b, shape) ==
    [base |-> b, shape |-> shape, strides |-> c_strides(shape), offset |-> 0]

RECURSIVE nd_dot(_, _, _)
nd_dot(idx, strides, k) ==
    IF k = 0 THEN 0 ELSE idx[k] * strides[k] + nd_dot(idx, strides, k - 1)

\* Where in its buffer (1-based) the array keeps the element at idx.
nd_position(a, idx) == a.offset + nd_dot(idx, a.strides, Len(idx)) + 1

\* The elements of the array in C order.
nd_flat(heap, a) ==
    [o \in 1..np_prod(a.shape) |->
        heap[a.base][nd_position(a, Unravel(o - 1, a.shape))]] \o <<>>

\* a.copy() that allocates nothing and hands back the array itself.
nd_copy_aliased(heap, a) == [heap |-> heap, array |-> a]

\* a.copy(): a new buffer with the elements of a, and the array on it.
nd_copy(heap, a) ==
    [heap |-> Append(heap, nd_flat(heap, a)),
     array |-> nd_whole(Len(heap) + 1, a.shape)]

\* a[slicelist] with slice(None, None, -1) at axis and slice(0, None)
\* elsewhere: a view of the same buffer, that axis backwards.  A negative
\* axis counts from the last one, as list indices do.
nd_reversed(a, axis) ==
    LET k == (IF axis < 0 THEN axis + Len(a.shape) ELSE axis) + 1
    IN  [a EXCEPT !.offset = a.offset + (a.shape[k] - 1) * a.strides[k],
                  !.strides[k] = 0 - a.strides[k]]

\* reverse_latdim that turns the first axis whatever axis is given.
reverse_latdim_first_axis(heap, u, v, axis) ==
    LET cu == nd_copy(heap, u)
        cv == nd_copy(cu.heap, v)
    IN  [heap |-> cv.heap,
         u |-> nd_reversed(cu.array, 0),
         v |-> nd_reversed(cv.array, 0)]

\* tools.reverse_latdim
reverse_latdim(heap, u, v, axis) ==
    LET cu == nd_copy(heap, u)
        cv == nd_copy(cu.heap, v)
    IN  [heap |-> cv.heap,
         u |-> nd_reversed(cu.array, axis),
         v |-> nd_reversed(cv.array, axis)]

\* tools.order_latdim
order_latdim(heap, latdim, u, v, axis) ==
    LET cl == nd_copy(heap, latdim)
        first == cl.heap[cl.array.base][nd_position(cl.array, <<0>>)]
        last == cl.heap[cl.array.base][
                    nd_position(cl.array, <<cl.array.shape[1] - 1>>)]
    IN  IF first.num < last.num
        THEN LET r == reverse_latdim(cl.heap, u, v, axis)
             IN  [heap |-> r.heap, latdim |-> nd_reversed(cl.array, 0),
                  u |-> r.u, v |-> r.v]
        ELSE LET cu == nd_copy(cl.heap, u)
                 cv == nd_copy(cu.heap, v)
             IN  [heap |-> cv.heap, latdim |-> cl.array,
                  u |-> cu.array, v |-> cv.array]

\* The highest rank of the wind components given to the two functions.
MaxLatdimRank == 3

\* Latitudes of n points: ascending, descending and all the same.
LatdimValues(n) ==
    {[k \in 1..n |-> Num(k)], [k \in 1..n |-> Num(n - k)],
     [k \in 1..n |-> Num(0)]}

\* The axis given by the caller as an index into the shape (1-based).
AxisOf(shape, axis) == (IF axis < 0 THEN axis + Len(shape) ELSE axis) + 1

LatdimIdle ==
    /\ l_pc = "idle"
    /\ l_heap = <<>>
    /\ l_args = None
    /\ l_ret = None

\* The caller holds latdim, u and v in buffers 1, 2 and 3; u and v have the
\* same shape and axis is any valid index, counted from either end.
LatdimStart ==
    /\ l_pc = "start"
    /\ \E r \in 1..MaxLatdimRank :
         \E shape \in Shapes(r), axis \in (0 - r)..(r - 1) :
           \E lats \in LatdimValues(shape[AxisOf(shape, axis)]) :
             /\ l_heap = <<lats,
                           [o \in 1..np_prod(shape) |-> Num(o - 1)],
                           [o \in 1..np_prod(shape) |-> Num(99 + o)]>>
             /\ l_args = [latdim |-> nd_whole(1, <<Len(lats)>>),
                          u |-> nd_whole(2, shape),
                          v |-> nd_whole(3, shape),
                          axis |-> axis,
                          given |-> l_heap]
    /\ l_ret = None

\* ur, vr = reverse_latdim(u, v, axis=axis)
ReverseLatdim ==
    /\ l_pc = "start"
    /\ LET r == reverse_latdim(l_heap, l_args.u, l_args.v, l_args.axis)
       IN  /\ l_heap' = r.heap
           /\ l_ret' = [u |-> r.u, v |-> r.v]
    /\ l_pc' = "reversed"
    /\ UNCHANGED <<l_args, toolsVars, gridVars, engineVars, adapterVars,
                   instanceVars, attributeVars, apiorderVars>>

\* reverse_latdim applied to what it returned.
ReverseLatdimAgain ==
    /\ l_pc = "reversed"
    /\ LET r == reverse_latdim(l_heap, l_ret.u, l_ret.v, l_args.axis)
       IN  /\ l_heap' = r.heap
           /\ l_ret' = [u |-> r.u, v |-> r.v]
    /\ l_pc' = "reversed2"
    /\ UNCHANGED <<l_args, toolsVars, gridVars, engineVars, adapterVars,
                   instanceVars, attributeVars, apiorderVars>>

\* latdimr, ur, vr = order_latdim(latdim, u, v, axis=axis)
OrderLatdim ==
    /\ l_pc = "start"
    /\ LET r == order_latdim(l_heap, l_args.latdim, l_args.u, l_args.v,
                             l_args.axis)
       IN  /\ l_heap' = r.heap
           /\ l_ret' = [latdim |-> r.latdim, u |-> r.u, v |-> r.v]
    /\ l_pc' = "ordered"
    /\ UNCHANGED <<l_args, toolsVars, gridVars, engineVars, adapterVars,
                   instanceVars, attributeVars, apiorderVars>>

\* order_latdim applied to what it returned; the first results are kept
\* next to the second.
OrderLatdimAgain ==
    /\ l_pc = "ordered"
    /\ LET r == order_latdim(l_heap, l_ret.latdim, l_ret.u, l_ret.v,
                             l_args.axis)
       IN  /\ l_heap' = r.heap
           /\ l_ret' = [latdim |-> r.latdim, u |-> r.u, v |-> r.v,
                        first |-> l_ret]
    /\ l_pc' = "ordered2"
    /\ UNCHANGED <<l_args, toolsVars, gridVars, engineVars, adapterVars,
                   instanceVars, attributeVars, apiorderVars>>

\* The caller assigns to the first element of one of the arrays returned.
WriteResult ==
    /\ l_pc \in {"reversed", "ordered"}
    /\ \E name \in DOMAIN l_ret :
         LET a == l_ret[name]
             zero == [k \in 1..Len(a.shape) |-> 0]
         IN  l_heap' = [l_heap EXCEPT ![a.base][nd_position(a, zero)]
                                          = Num(0 - 1)]
    /\ l_pc' = IF l_pc = "reversed" THEN "reversed_written"
               ELSE "ordered_written"
    /\ UNCHANGED <<l_args, l_ret, toolsVars, gridVars, engineVars,
                   adapterVars, instanceVars, attributeVars,
                   apiorderVars>>

LatdimNext ==
    \/ ReverseLatdim
    \/ ReverseLatdimAgain
    \/ OrderLatdim
    \/ OrderLatdimAgain
    \/ WriteResult

-----------------------------------------------------------------------------
(* Names, units and warnings.  What a cube, DataArray or cdms2 variable    *)
(* carries besides its coordinates and data is kept next to it as a        *)
(* record of attributes: its name (the id of a cdms2 variable) and units.  *)

\* The warnings VectorWind.__init__ of an interface issues: the
\* constructors read the type, the coordinates and the data of u and v and
\* have no warnings.warn call.
init_warnings(cls, u_attrs, v_attrs) == <<>>

\* The attributes of the two components gradient returns: new containers
\* are made from the arrays and the coordinates, then the names are set.
gradient_attrs(cls, attrs) ==
    CASE cls = "iris" ->
           <<[long_name |-> "zonal_gradient_of_" \o attrs.name],
             [long_name |-> "meridional_gradient_of_" \o attrs.name]>>
      [] cls = "xarray" ->
           <<[name |-> "zonal_gradient_of_" \o attrs.name,
              long_name |-> "zonal_gradient_of_" \o attrs.name],
             [name |-> "meridional_gradient_of_" \o attrs.name,
              long_name |-> "meridional_gradient_of_" \o attrs.name]>>
      [] cls = "cdms" ->
           <<[name |-> attrs.name \o "_zonal",
              long_name |-> "zonal_gradient_of_" \o attrs.name],
             [name |-> attrs.name \o "_meridional",
              long_name |-> "meridional_gradient_of_" \o attrs.name]>>

\* The attributes of what truncate returns: a copy of the field with new
\* data; cdms sets the id from 'truncation or fieldtrunc.shape[0] - 1'.
truncate_attrs(cls, attrs, truncation, fieldtrunc) ==
    IF cls = "cdms"
    THEN LET tnumber == IF truncation = None \/ truncation.int = 0
                        THEN fieldtrunc.shape[1] - 1
                        ELSE truncation.int
         IN  [attrs EXCEPT !.name = attrs.name \o "_T" \o ToString(tnumber)]
    ELSE attrs

\* The units winds are declared in: spellings of metres per second, and
\* other units of speed.
MetresPerSecond == {"m/s", "m / s", "m s**-1", "m s^-1", "m s ** -1"}

WindUnits == MetresPerSecond \cup {"knots", "mph", "miles per hour"}

\* The units scalar fields are declared in.
FieldUnits == {"K", "mg/kg"}

\* The truncations given to truncate: none, 0 and up to nlat - 1.
TruncateArguments(w) ==
    {None} \cup {IntVal(n) : n \in 0..(w.api.s.nlat - 1)}

AttributesIdle ==
    /\ m_pc = "idle"
    /\ m_args = None
    /\ m_w = None
    /\ m_warnings = <<>>
    /\ m_call = None
    /\ m_ret = None

AttributesStart ==
    /\ m_pc = "new"
    /\ \E cls \in Interfaces, units \in WindUnits :
         m_args = [cls |-> cls,
                   u |-> LabelledArray(ContainerOf(cls), BaseDims, 0),
                   v |-> LabelledArray(ContainerOf(cls), BaseDims, 100),
                   u_attrs |-> [name |-> "u", units |-> units],
                   v_attrs |-> [name |-> "v", units |-> units]]
    /\ m_w = None
    /\ m_warnings = <<>>
    /\ m_call = None
    /\ m_ret = None

\* VectorWind(u, v) of the interface.
AttributesConstruct ==
    /\ m_pc = "new"
    /\ LET r == adapter_init(m_args.cls, m_args.u, m_args.v, DefaultRsphere)
       IN  /\ m_pc' = IF IsError(r) THEN "failed" ELSE "built"
           /\ m_w' = r
    /\ m_warnings' = m_warnings \o init_warnings(m_args.cls, m_args.u_attrs,
                                                 m_args.v_attrs)
    /\ m_call' = [op |-> "__init__"]
    /\ UNCHANGED <<m_args, m_ret, toolsVars, gridVars, engineVars,
                   adapterVars, instanceVars, latdimVars,
                   apiorderVars>>

\* w.gradient(field, truncation) for a field on the grid of the wind.
AttributesGradient ==
    /\ m_pc = "built"
    /\ \E units \in FieldUnits, t \in AdapterTruncations :
         LET field == LabelledArray(ContainerOf(m_args.cls),
                                    <<BaseLat, BaseLon>>, 200)
             attrs == [name |-> "ps", units |-> units]
             r == adapter_gradient(m_w, field, t)
         IN  /\ m_call' = [op |-> "gradient", field |-> field,
                           field_attrs |-> attrs, truncation |-> t,
                           field_attrs_after |-> attrs]
             /\ m_ret' = [arrays |-> r.value,
                          attrs |-> gradient_attrs(m_args.cls, attrs)]
    /\ m_pc' = "returned"
    /\ UNCHANGED <<m_args, m_w, m_warnings, toolsVars, gridVars, engineVars,
                   adapterVars, instanceVars, latdimVars,
                   apiorderVars>>

\* w.truncate(field, truncation) for a field on the grid of the wind.
AttributesTruncate ==
    /\ m_pc = "built"
    /\ \E units \in FieldUnits, t \in TruncateArguments(m_w) :
         LET field == LabelledArray(ContainerOf(m_args.cls),
                                    <<BaseLat, BaseLon>>, 200)
             attrs == [name |-> "ps", units |-> units]
             r == adapter_truncate(m_w, field, t)
         IN  /\ m_call' = [op |-> "truncate", field |-> field,
                           field_attrs |-> attrs, truncation |-> t,
                           field_attrs_after |-> attrs]
             /\ m_ret' = [arrays |-> <<r.value>>,
                          attrs |-> <<truncate_attrs(
                                        m_args.cls, attrs, t,
                                        truncate(m_w.api,
                                                 to3d(field.data), t))>>]
    /\ m_pc' = "returned"
    /\ UNCHANGED <<m_args, m_w, m_warnings, toolsVars, gridVars, engineVars,
                   adapterVars, instanceVars, latdimVars,
                   apiorderVars>>

AttributesNext ==
    \/ AttributesConstruct
    \/ AttributesGradient
    \/ AttributesTruncate

-----------------------------------------------------------------------------
(* The dimension ordering session: get_apiorder and the two transposes *)

MaxNdim == 5

\* The array of ndim axes the orderings are applied to.
ApiorderArray(ndim) == Labelled([k \in 1..ndim |-> 2])

ApiorderIdle ==
    /\ o_pc = "idle"
    /\ o_args = None
    /\ o_ret = None

ApiorderStart ==
    /\ o_pc = "start"
    /\ \E ndim \in 2..MaxNdim :
         \E latitude_dim \in 0..(ndim - 1), longitude_dim \in 0..(ndim - 1) :
            /\ latitude_dim # longitude_dim
            /\ o_args = [ndim |-> ndim, latitude_dim |-> latitude_dim,
                         longitude_dim |-> longitude_dim]
    /\ o_ret = None

\* apiorder, reorder = get_apiorder(ndim, lat_dim, lon_dim)
GetApiorder ==
    /\ o_pc = "start"
    /\ o_pc' = "ordered"
    /\ LET r == get_apiorder(o_args.ndim, o_args.latitude_dim,
                             o_args.longitude_dim)
       IN  o_ret' = [apiorder |-> r[1], reorder |-> r[2]]
    /\ UNCHANGED <<o_args, toolsVars, gridVars, engineVars, adapterVars,
                   instanceVars, latdimVars, attributeVars>>

\* u.transpose(apiorder) on the way in, transpose(reorder) on the way out.
TransposeBoth ==
    /\ o_pc = "ordered"
    /\ o_pc' = "restored"
    /\ LET x == ApiorderArray(o_args.ndim)
           inward == np_transpose(x, o_ret.apiorder)
       IN  o_ret' = [apiorder |-> o_ret.apiorder, reorder |-> o_ret.reorder,
                     inward |-> inward,
                     outward |-> np_transpose(inward, o_ret.reorder)]
    /\ UNCHANGED <<o_args, toolsVars, gridVars, engineVars, adapterVars,
                   instanceVars, latdimVars, attributeVars>>

ApiorderNext == GetApiorder \/ TransposeBoth

-----------------------------------------------------------------------------
(* Specifications *)

ToolsInit ==
    ToolsStart /\ GridIdle /\ EngineIdle /\ AdapterIdle /\ InstancesIdle
    /\ LatdimIdle /\ AttributesIdle /\ ApiorderIdle

SpecTools == ToolsInit /\ [][ToolsNext]_vars

GridInit ==
    GridStart /\ ToolsIdle /\ EngineIdle /\ AdapterIdle /\ InstancesIdle
    /\ LatdimIdle /\ AttributesIdle /\ ApiorderIdle

SpecGrid == GridInit /\ [][GridNext]_vars

EngineInit ==
    EngineStart /\ ToolsIdle /\ GridIdle /\ AdapterIdle /\ InstancesIdle
    /\ LatdimIdle /\ AttributesIdle /\ ApiorderIdle

SpecEngine == EngineInit /\ [][EngineNext]_vars

AdapterInit ==
    AdapterStart /\ ToolsIdle /\ GridIdle /\ EngineIdle /\ InstancesIdle
    /\ LatdimIdle /\ AttributesIdle /\ ApiorderIdle

SpecAdapter == AdapterInit /\ [][AdapterNext]_vars

InstancesInit ==
    InstancesStart /\ ToolsIdle /\ GridIdle /\ EngineIdle /\ AdapterIdle
    /\ LatdimIdle /\ AttributesIdle /\ ApiorderIdle

SpecInstances == InstancesInit /\ [][InstancesNext]_vars

LatdimInit ==
    LatdimStart /\ ToolsIdle /\ GridIdle /\ EngineIdle /\ AdapterIdle
    /\ InstancesIdle /\ AttributesIdle /\ ApiorderIdle

SpecLatdim == LatdimInit /\ [][LatdimNext]_vars

AttributesInit ==
    AttributesStart /\ ToolsIdle /\ GridIdle /\ EngineIdle /\ AdapterIdle
    /\ InstancesIdle /\ LatdimIdle /\ ApiorderIdle

SpecAttributes == AttributesInit /\ [][AttributesNext]_vars

ApiorderInit ==
    ApiorderStart /\ ToolsIdle /\ GridIdle /\ EngineIdle /\ AdapterIdle
    /\ InstancesIdle /\ LatdimIdle /\ AttributesIdle

SpecApiorder == ApiorderInit /\ [][ApiorderNext]_vars

-----------------------------------------------------------------------------
(* C1 *)

\* Number of positions of s holding character c.
CountChar(s, c) == Cardinality({k \in 1..Len(s) : s[k] = c})

\* C1: for every array of rank >= 2 and every dimension order with one
\* character per axis that names longitude 'x' and latitude 'y' (once each,
\* any other characters for the other axes), recover_data(prep_data(data))
\* is the array given: same shape, same element at every index.
C1_RoundTrip ==
    (/\ t_pc = "recovered"
     /\ CountChar(t_dimorder, "x") = 1
     /\ CountChar(t_dimorder, "y") = 1)
    => t_rdata = t_data

-----------------------------------------------------------------------------
(* C2, C3, C4 *)

Ascending(points) ==
    \A k \in 1..(Len(points) - 1) : points[k] < points[k + 1]

Descending(points) ==
    \A k \in 1..(Len(points) - 1) : points[k] > points[k + 1]

DimNames(dims) == [k \in 1..Len(dims) |-> dims[k].name]

\* The axes (1-based) of latitude, of longitude and of the rest, in order.
LatAxis(dims) == PosIn(DimNames(dims), "latitude")

LonAxis(dims) == PosIn(DimNames(dims), "longitude")

OtherAxes(dims) ==
    SelectSeq([k \in 1..Len(dims) |-> k],
              LAMBDA k : k \notin {LatAxis(dims), LonAxis(dims)})

\* Where the element at index idx of a labelled array sits in a
\* (latitude, longitude, everything else) array: latitude index first,
\* counted from the other end when flip holds, longitude index second, the
\* remaining indices combined in their order.
ApiIndex(dims, idx, flip) ==
    LET la == LatAxis(dims)
        rest == OtherAxes(dims)
        extent(k) == Len(dims[k].points)
    IN  <<IF flip THEN extent(la) - 1 - idx[la] ELSE idx[la],
          idx[LonAxis(dims)],
          Ravel([k \in 1..Len(rest) |-> idx[rest[k]]],
                [k \in 1..Len(rest) |-> extent(rest[k])])>>

\* The engine array holds the elements of the labelled array x with
\* latitude on axis 0 running north to south, longitude on axis 1 and the
\* other axes combined on axis 2.
EngineHolds(engine, x) ==
    LET shape == x.data.shape
        asc == Ascending(LatOf(x.dims).points)
        index == [o \in 0..(np_prod(shape) - 1) |->
                     Ravel(ApiIndex(x.dims, Unravel(o, shape), asc),
                           engine.shape)]
    IN  /\ engine.shape = <<shape[LatAxis(x.dims)], shape[LonAxis(x.dims)],
                            np_prod(shape)
                                \div (shape[LatAxis(x.dims)]
                                      * shape[LonAxis(x.dims)])>>
        /\ \A o \in 0..(np_prod(shape) - 1) :
               engine.flat[index[o] + 1] = x.data.flat[o + 1]

\* C2: whatever the direction of a strictly monotonic latitude coordinate
\* and whatever the dimension order of the input, the engine an interface
\* builds holds u and v with latitude on axis 0 running north to south: an
\* ascending input is reversed along latitude, a descending one is not.
C2_EngineNorthToSouth ==
    (a_pc = "built"
     /\ (\/ Ascending(LatOf(a_args.u.dims).points)
         \/ Descending(LatOf(a_args.u.dims).points)))
    => /\ EngineHolds(a_w.api.u, a_args.u)
       /\ EngineHolds(a_w.api.v, a_args.v)

\* An interface was built from components of three dimensions with an
\* ascending latitude coordinate on the last axis.
C2_Witness ==
    /\ a_pc = "built"
    /\ Len(a_args.u.dims) = 3
    /\ LatAxis(a_args.u.dims) = 3
    /\ Ascending(LatOf(a_args.u.dims).points)
    /\ At(a_w.api.u, <<0, 0, 0>>)
           = At(a_args.u.data, <<0, 0, Len(LatOf(a_args.u.dims).points) - 1>>)

SubjectOf(call, args) ==
    IF call.op \in {"gradient", "truncate"} THEN call.field ELSE args.u

\* The data of a labelled array laid out as the engine takes it: latitude,
\* longitude, then the other axes combined, no axis reversed.
ApiLayout(x) ==
    LET axes == <<LatAxis(x.dims) - 1, LonAxis(x.dims) - 1>>
                \o SelectSeq(Range(Len(x.dims)),
                             LAMBDA a : (a + 1) \notin {LatAxis(x.dims),
                                                        LonAxis(x.dims)})
    IN  to3d(np_transpose(x.data, axes))

\* What the engine returned for the call made on the interface, as a tuple.
EngineResult(self, call) ==
    LET north(x) == IF Ascending(LatOf(x.dims).points)
                    THEN la_reverse(x, LatAxis(x.dims) - 1) ELSE x
    IN  CASE call.op = "gradient" ->
                 gradient(self.api, ApiLayout(north(call.field)),
                          call.truncation)
          [] call.op = "truncate" ->
                 <<truncate(self.api, ApiLayout(north(call.field)),
                            call.truncation)>>
          [] OTHER -> api_call(self.api, call.op, call.truncation)

\* C4 as claimed: when the latitude coordinate of the input is ascending,
\* every returned array has its latitude axis back in the input's
\* ascending order (and the input's dimension order).
C4_AscendingRestored ==
    (a_pc = "returned"
     /\ Ascending(LatOf(SubjectOf(a_call, a_args).dims).points))
    => \A k \in 1..Len(a_ret) :
           /\ DimNames(a_ret[k].dims)
                  = DimNames(SubjectOf(a_call, a_args).dims)
           /\ LatOf(a_ret[k].dims).points
                  = LatOf(SubjectOf(a_call, a_args).dims).points

\* C4 amended: when the latitude coordinate of the input is ascending, the
\* reversal applied on the way in is not undone on the way out: every
\* returned array has the input's dimension order, but its latitude
\* coordinate is the input's reversed (north to south) and its rows along
\* latitude are the engine's rows in the engine's north-to-south order.
C4_NorthToSouthKept ==
    (a_pc = "returned"
     /\ Ascending(LatOf(SubjectOf(a_call, a_args).dims).points))
    => LET x == SubjectOf(a_call, a_args)
           r == EngineResult(a_w, a_call)
       IN  \A k \in 1..Len(a_ret) :
               /\ DimNames(a_ret[k].dims) = DimNames(x.dims)
               /\ LatOf(a_ret[k].dims).points
                      = Reversed(LatOf(x.dims).points)
               /\ Descending(LatOf(a_ret[k].dims).points)
               /\ FlatOf(ApiLayout(a_ret[k])) = FlatOf(r[k])

\* The u of an interface built from ascending latitudes was returned: its
\* latitude coordinate is descending and its first row along latitude is
\* the last row of the input.
C4_Witness ==
    /\ a_pc = "returned"
    /\ a_call.op = "u"
    /\ Len(a_args.u.dims) = 2
    /\ LatAxis(a_args.u.dims) = 1
    /\ Ascending(LatOf(a_args.u.dims).points)
    /\ Descending(LatOf(a_ret[1].dims).points)
    /\ At(a_ret[1].data, <<0, 0>>)
           = At(a_args.u.data, <<Len(LatOf(a_args.u.dims).points) - 1, 0>>)

-----------------------------------------------------------------------------
(* C5 *)

NorthToSouth(lats) == \A k \in 1..(Len(lats) - 1) : lats[k] > lats[k + 1]

\* Every spacing is less than the tolerance away from the first spacing.
UniformSpacing(lats) ==
    \A k \in 1..(Len(lats) - 1) :
        Abs(Abs(lats[k + 1] - lats[k]) - Abs(lats[2] - lats[1])) < tolerance

\* Every value is at most the tolerance away from the reference value.
Matches(lats, reference) ==
    \A k \in 1..Len(lats) : Abs(lats[k] - reference[k]) <= tolerance

\* C5: for a north-to-south latitude sequence of length >= 2,
\* inspect_gridtype returns 'regular' exactly when the spacings are uniform
\* (each less than 5e-4 from the first) and every value is within 5e-4 of
\* the global reference of the same length, returns 'gaussian' exactly when
\* the spacings are not uniform and every value is within 5e-4 of the
\* Gaussian reference, and raises the invalid-grid error otherwise; an
\* equally spaced sequence that is not global is rejected, never gaussian.
C5_Classification ==
    (g_pc = "done" /\ NorthToSouth(g_lats)) =>
        LET n == Len(g_lats)
            regular  == UniformSpacing(g_lats)
                        /\ Matches(g_lats, equal_reference(n))
            gaussian == ~UniformSpacing(g_lats)
                        /\ Matches(g_lats, gaussian_lats(n))
        IN  /\ (g_result = Ok("regular")) <=> regular
            /\ (g_result = Ok("gaussian")) <=> gaussian
            /\ (~regular /\ ~gaussian) =>
                   (IsError(g_result) /\ g_result.error = "ValueError")
            /\ (UniformSpacing(g_lats)
                /\ ~Matches(g_lats, equal_reference(n))) =>
                   (IsError(g_result) /\ g_result # Ok("gaussian"))

\* A north-to-south sequence with unequal spacings was classified gaussian.
C5_Witness ==
    /\ g_pc = "done"
    /\ NorthToSouth(g_lats)
    /\ ~UniformSpacing(g_lats)
    /\ g_result = Ok("gaussian")

-----------------------------------------------------------------------------
(* C6 *)

\* C6: for every engine and every truncation, each single-output method
\* returns the matching component of the combined method called with the
\* same truncation.
C6_Projections ==
    e_pc = "built" =>
        \A t \in Truncations(e_self) :
            /\ vorticity(e_self, t) = vrtdiv(e_self, t)[1]
            /\ divergence(e_self, t) = vrtdiv(e_self, t)[2]
            /\ streamfunction(e_self, t) = sfvp(e_self, t)[1]
            /\ velocitypotential(e_self, t) = sfvp(e_self, t)[2]
            /\ irrotationalcomponent(e_self, t) =
                   SubSeq(helmholtz(e_self, t), 1, 2)
            /\ nondivergentcomponent(e_self, t) =
                   SubSeq(helmholtz(e_self, t), 3, 4)

\* nondivergentcomponent was called with a truncation on an engine of
\* several fields and returned the last two components of helmholtz.
C6_Witness ==
    /\ e_pc = "built"
    /\ e_call.op = "nondivergentcomponent"
    /\ e_call.truncation = IntVal(1)
    /\ Len(e_self.u.shape) = 3
    /\ e_ret = SubSeq(helmholtz(e_self, IntVal(1)), 3, 4)

-----------------------------------------------------------------------------
(* C7 *)

\* The vector gradient of a grid as the engine's own gradient method
\* returns it: <<zonal component, meridional component>>.
GradOf(self, grid) == gradient(self, grid, None)

\* C7 as claimed: the non-divergent wind is the streamfunction gradient
\* with its zonal component negated (upsi = -zonal, vpsi = meridional),
\* and the irrotational wind is the gradient of the velocity potential.
C7_ZonalNegated ==
    e_pc = "built" =>
        \A t \in Truncations(e_self) :
            LET gpsi == GradOf(e_self, streamfunction(e_self, t))
                gchi == GradOf(e_self, velocitypotential(e_self, t))
                h == helmholtz(e_self, t)
            IN  /\ h[3] = np_negative(gpsi[1])
                /\ h[4] = gpsi[2]
                /\ nondivergentcomponent(e_self, t) = <<h[3], h[4]>>
                /\ <<h[1], h[2]>> = gchi

\* C7 amended: helmholtz() and nondivergentcomponent() build the
\* non-divergent wind by swapping the two components of the streamfunction
\* gradient and negating the meridional one: upsi is minus the meridional
\* gradient component and vpsi is the zonal gradient component; the
\* irrotational wind is the gradient of the velocity potential unchanged.
C7_MeridionalNegated ==
    e_pc = "built" =>
        \A t \in Truncations(e_self) :
            LET gpsi == GradOf(e_self, streamfunction(e_self, t))
                gchi == GradOf(e_self, velocitypotential(e_self, t))
                h == helmholtz(e_self, t)
            IN  /\ h[3] = np_negative(gpsi[2])
                /\ h[4] = gpsi[1]
                /\ nondivergentcomponent(e_self, t) = <<h[3], h[4]>>
                /\ <<h[1], h[2]>> = gchi

\* helmholtz was called and its third component is minus the meridional
\* component of the streamfunction gradient.
C7_Witness ==
    /\ e_pc = "built"
    /\ e_call.op = "helmholtz"
    /\ e_ret[3] = np_negative(
           GradOf(e_self, streamfunction(e_self, e_call.truncation))[2])

-----------------------------------------------------------------------------
(* C8 *)

\* A masked element or a NaN somewhere in the array.
HasMissing(a) ==
    \E o \in 1..Len(a.flat) :
        \/ np_isnan(a.flat[o])
        \/ IsMasked(a) /\ a.mask[o]

MissingValueErrors ==
    {ValueError("u and v cannot contain missing values"),
     ValueError("chi cannot contain missing values"),
     ValueError("field cannot contain missing values")}

\* C8: a masked element or NaN in u or v makes construction fail with the
\* missing-value error and leaves no engine; a masked element or NaN in
\* the field given to gradient or truncate makes the call fail with the
\* missing-value error instead of returning a result.
C8_MissingValues ==
    /\ (e_pc \in {"built", "failed"}
        /\ (HasMissing(e_args.u) \/ HasMissing(e_args.v)))
       => (/\ e_pc = "failed"
           /\ e_self = None
           /\ e_ret \in MissingValueErrors)
    /\ (e_pc = "built" /\ e_call.op \in {"gradient", "truncate"}
        /\ HasMissing(e_call.field))
       => e_ret \in MissingValueErrors

\* gradient was called with a field holding a masked element and failed.
C8_Witness ==
    /\ e_pc = "built"
    /\ e_call.op = "gradient"
    /\ IsMasked(e_call.field)
    /\ HasMissing(e_call.field)
    /\ e_ret \in MissingValueErrors

-----------------------------------------------------------------------------
(* C9 *)

\* C9: construction fails whenever u and v differ in shape (or in rank) and
\* whenever their rank is not 2 or 3.
C9_ShapeAndRank ==
    (e_pc \in {"built", "failed"}
     /\ (\/ e_args.u.shape # e_args.v.shape
         \/ Len(e_args.u.shape) \notin {2, 3}))
    => (e_pc = "failed" /\ e_self = None /\ IsError(e_ret))

\* Construction failed on components free of missing values whose shapes
\* differ in the number of latitudes only.
C9_Witness ==
    /\ e_pc = "failed"
    /\ ~HasMissing(e_args.u)
    /\ ~HasMissing(e_args.v)
    /\ Len(e_args.u.shape) = Len(e_args.v.shape)
    /\ e_args.u.shape # e_args.v.shape
    /\ e_ret = ValueError("u and v must be the same shape")

-----------------------------------------------------------------------------
(* C10 *)

InvalidGridErrors ==
    {ValueError("invalid grid type"), ValueError("invalid input dimensions")}

\* The checks that come before the grid check all pass.
WellFormedWind(args) ==
    /\ ~HasMissing(args.u)
    /\ ~HasMissing(args.v)
    /\ args.u.shape = args.v.shape
    /\ Len(args.u.shape) \in {2, 3}

\* C10: construction fails with the invalid-grid error when the grid type
\* (whatever its letter case) is neither 'regular' nor 'gaussian', when
\* nlat < 3 or when nlon < 4; so every engine there is has gridtype in
\* {regular, gaussian}, nlat >= 3 and nlon >= 4, after any calls.
C10_ValidGrid ==
    /\ (e_pc \in {"built", "failed"} /\ WellFormedWind(e_args)
        /\ (\/ gridtype_lower(e_args.gridtype) \notin {"regular", "gaussian"}
            \/ e_args.u.shape[1] < 3
            \/ e_args.u.shape[2] < 4))
       => (e_pc = "failed" /\ e_self = None /\ e_ret \in InvalidGridErrors)
    /\ e_self # None
       => (/\ e_self.gridtype \in {"regular", "gaussian"}
           /\ e_self.s.gridtype = e_self.gridtype
           /\ e_self.s.nlat >= 3
           /\ e_self.s.nlon >= 4
           /\ e_self.u.shape[1] = e_self.s.nlat
           /\ e_self.u.shape[2] = e_self.s.nlon)

\* Construction failed on well-formed components because the grid has
\* fewer than 3 latitudes, although the grid type is valid.
C10_Witness ==
    /\ e_pc = "failed"
    /\ WellFormedWind(e_args)
    /\ e_args.gridtype = "gaussian"
    /\ e_args.u.shape[1] < 3
    /\ e_args.u.shape[2] >= 4
    /\ e_ret = ValueError("invalid input dimensions")

-----------------------------------------------------------------------------
(* C11 *)

\* The call made on the interface was given an array that is not of the
\* interface's container kind.
ForeignInput ==
    \/ /\ a_call.op = "__init__"
       /\ \/ a_args.u.kind # ContainerOf(a_args.cls)
          \/ a_args.v.kind # ContainerOf(a_args.cls)
    \/ /\ a_call.op \in {"gradient", "truncate"}
       /\ a_call.field.kind # ContainerOf(a_args.cls)

-----------------------------------------------------------------------------
(* C12 *)

\* The errors the constructors raise for components on different
\* dimension coordinates.
DimensionMismatchErrors ==
    {ValueError("u and v must have the same dimensions"),
     ValueError("u and v must have the same dimension coordinates"),
     ValueError("u and v must have the same dimension coordinate values"),
     ValueError("u and v must have the same dimension order")}

\* u and v are of the interface's container kind.
OwnContainers(args) ==
    /\ args.u.kind = ContainerOf(args.cls)
    /\ args.v.kind = ContainerOf(args.cls)

\* u and v differ in the names of their dimensions, taken in order, or in
\* the values of a dimension coordinate.
ComponentsDisagree(args) ==
    \/ DimNames(args.u.dims) # DimNames(args.v.dims)
    \/ \E k \in 1..Len(args.u.dims) :
           args.u.dims[k].points # args.v.dims[k].points

\* C12: the constructor of every interface raises the dimension mismatch
\* error when u and v do not have the same dimension names in the same
\* order or the same coordinate values along every dimension; no engine is
\* built from such components.
C12_MismatchRejected ==
    (a_call # None /\ a_call.op = "__init__"
     /\ OwnContainers(a_args) /\ ComponentsDisagree(a_args))
    => /\ a_pc = "failed"
       /\ a_ret \in DimensionMismatchErrors

-----------------------------------------------------------------------------
(* C13 *)

\* The errors raised when latitude or longitude cannot be identified.
GridNotFoundErrors ==
    {ValueError("multiple coordinates not allowed"),
     ValueError("cannot get coordinate from cube"),
     ValueError("cannot find a coordinate"),
     ValueError("multiple coordinates are not allowed"),
     ValueError("a latitude-longitude grid is required")}

\* The dimension coordinates of an array the interface takes for a
\* latitude (word = "latitude") or a longitude (word = "longitude").
Candidates(cls, dims, word) ==
    {k \in 1..Len(dims) :
        CASE cls = "iris" -> NameContains(dims[k].name, word)
          [] cls = "xarray" -> IF word = "latitude"
                               THEN xr_is_latitude(dims[k])
                               ELSE xr_is_longitude(dims[k])
          [] cls = "cdms" -> cdms_order_char(dims[k])
                                 = (IF word = "latitude" THEN "y" ELSE "x")}

\* Exactly one latitude and exactly one longitude are identified.
GridIdentified(cls, dims) ==
    /\ Cardinality(Candidates(cls, dims, "latitude")) = 1
    /\ Cardinality(Candidates(cls, dims, "longitude")) = 1

\* The call passed the checks that come before the grid is looked for:
\* the arrays are of the interface's kind and u and v agree.
GridLookedFor ==
    /\ a_call # None
    /\ a_call.op \in {"__init__", "gradient", "truncate"}
    /\ ~ForeignInput
    /\ a_call.op = "__init__" => a_args.u.dims = a_args.v.dims

\* C13: the constructor, gradient and truncate of every interface raise
\* the grid-not-found error when the array has no dimension coordinate
\* taken for a latitude, none taken for a longitude, or more than one of
\* either; they go on only with exactly one of each.
C13_GridIdentified ==
    (GridLookedFor
     /\ ~GridIdentified(a_args.cls, SubjectOf(a_call, a_args).dims))
    => /\ a_pc \in {"failed", "raised"}
       /\ a_ret \in GridNotFoundErrors

-----------------------------------------------------------------------------
(* C14 *)

\* The errors gradient and truncate of the engine raise for a field the
\* transform does not take.
IncompatibleFieldErrors ==
    {ValueError("input field is not compatitble"),
     ValueError("field is not compatible")}

\* The number of points of the latitude (or longitude) of an array on
\* which exactly one is identified.
ExtentOf(cls, dims, word) ==
    Len(dims[CHOOSE k \in Candidates(cls, dims, word) : TRUE].points)

C14_AcceptedWitness ==
    /\ a_pc = "returned"
    /\ a_call.op = "gradient"
    /\ Len(a_args.u.dims) = 2
    /\ Len(a_call.field.dims) = 3

-----------------------------------------------------------------------------
(* C15 *)

\* What an interface's instance retains of the layout of its wind: the
\* permutation back to the input's order, the shape and the coordinates.
Retained(w) ==
    IF w.cls = "cdms" THEN <<w.order, w.ishape, w.axes>>
    ELSE <<w.reorder, w.ishape, w.coords>>

\* The latitude points of a labelled array, from north to south.
NorthToSouthPoints(x) ==
    LET points == LatOf(x.dims).points
    IN  IF Ascending(points) THEN Reversed(points) ELSE points

\* C15: gradient and truncate of an interface lay out the field they are
\* given by that field alone.  The arrays returned have the field's
\* dimensions in the field's order and the field's shape (latitude taken
\* north to south from the field's own coordinate), also when the wind
\* given at construction has another rank, order and latitude direction;
\* what the instance retains of the wind's layout stays as construction
\* left it, and a diagnostic called after gradient or truncate returns
\* what it returns on a newly constructed instance.
C15_FieldLaidOutAlone ==
    \A i \in Instances :
        (i_w # None /\ i_w[i] # None /\ ~IsEngine(i_w[i]))
        => /\ Retained(i_w[i]) = Retained(instance_init(i_args[i]))
           /\ i_call[i] # None
              => IF i_call[i].op \in {"gradient", "truncate"}
                 THEN \A k \in 1..Len(i_ret[i]) :
                          /\ i_ret[i][k].kind = i_call[i].field.kind
                          /\ DimNames(i_ret[i][k].dims)
                                 = DimNames(i_call[i].field.dims)
                          /\ i_ret[i][k].data.shape
                                 = i_call[i].field.data.shape
                          /\ LatOf(i_ret[i][k].dims).points
                                 = NorthToSouthPoints(i_call[i].field)
                 ELSE i_ret[i] = adapter_diagnostic(
                                     instance_init(i_args[i]),
                                     i_call[i].op, i_call[i].truncation)

\* vorticity was called on an iris instance built from a (latitude,
\* longitude) wind after a gradient or truncate of a (longitude, latitude,
\* time) field, and has the wind's dimensions.
C15_Witness ==
    /\ i_w # None
    /\ i_w["A"] # None
    /\ i_args["A"].cls = "iris"
    /\ i_call["A"] # None
    /\ i_call["A"].op = "vorticity"
    /\ i_call["A"].after_field
    /\ DimNames(i_ret["A"][1].dims) = <<"latitude", "longitude">>
    /\ i_ret["A"][1].data.shape = <<MinNlat, MinNlon>>

-----------------------------------------------------------------------------
(* C16 *)

\* What the call made on the engine returns on the engine as construction
\* left it.
EngineAlone(args, call) ==
    LET w == standard_init(args.u, args.v, args.gridtype, args.rsphere)
    IN  CASE call.op = "magnitude" -> magnitude(w)
          [] call.op = "planetaryvorticity" ->
                 planetaryvorticity(w, call.omega)
          [] call.op = "absolutevorticity" ->
                 absolutevorticity(w, call.omega, call.truncation)
          [] call.op = "gradient" -> gradient(w, call.field, call.truncation)
          [] call.op = "truncate" -> truncate(w, call.field, call.truncation)
          [] call.op \in {"vorticity", "divergence", "streamfunction",
                          "velocitypotential"} ->
                 api_call(w, call.op, call.truncation)[1]
          [] OTHER -> api_call(w, call.op, call.truncation)

-----------------------------------------------------------------------------
(* C17 *)

\* What the call made on an instance returns on an instance constructed
\* from args and used alone.
InstanceAlone(args, call) ==
    LET w == instance_init(args)
    IN  CASE call.op = "gradient" ->
                 instance_gradient(w, call.field, call.truncation)
          [] call.op = "truncate" ->
                 instance_truncate(w, call.field, call.truncation)
          [] OTHER -> instance_diagnostic(w, call.op, call.truncation)

-----------------------------------------------------------------------------
(* C18 *)

\* The axes (1-based) of data that dimorder marks with neither 'x' nor 'y',
\* in their order.
UnmarkedAxes(dimorder) ==
    SelectSeq([k \in 1..Len(dimorder) |-> k],
              LAMBDA k : dimorder[k] \notin {"x", "y"})

\* The element of array a (a shape and its elements in C order) at idx.
ElementAt(a, idx) == a.flat[nd_dot(idx, c_strides(a.shape), Len(idx)) + 1]

\* C18: for a dimension order that marks one axis 'y' and one axis 'x',
\* prep_data returns an array of rank 3 whose axis 0 is the axis marked
\* 'y', whose axis 1 is the axis marked 'x' and whose last axis holds the
\* other axes flattened in their original relative order (extent: the
\* product of theirs, 1 when there are none); info holds the shape before
\* the flattening, the order 'yx' followed by the other characters, and the
\* order given.
C18_PrepLayout ==
    (/\ t_pc = "prepped"
     /\ CountChar(t_dimorder, "x") = 1
     /\ CountChar(t_dimorder, "y") = 1)
    => LET ypos == PosIn(t_dimorder, "y")
           xpos == PosIn(t_dimorder, "x")
           rest == UnmarkedAxes(t_dimorder)
           restshape == [k \in 1..Len(rest) |-> t_data.shape[rest[k]]]
       IN  /\ t_pdata.shape = <<t_data.shape[ypos], t_data.shape[xpos],
                                np_prod(restshape)>>
           /\ \A o \in 1..np_prod(t_data.shape) :
                LET idx == Unravel(o - 1, t_data.shape)
                    ridx == [k \in 1..Len(rest) |-> idx[rest[k]]]
                    last == nd_dot(ridx, c_strides(restshape), Len(rest))
                IN  ElementAt(t_pdata, <<idx[ypos], idx[xpos], last>>)
                    = t_data.flat[o]
           /\ t_info.intermediate_shape
              = <<t_data.shape[ypos], t_data.shape[xpos]>> \o restshape
           /\ t_info.intermediate_order
              = <<"y", "x">> \o [k \in 1..Len(rest) |-> t_dimorder[rest[k]]]
           /\ t_info.original_order = t_dimorder

\* The same for dimension orders whose characters are all lower case.
C18_PrepLayoutLowerCase ==
    (\A k \in 1..Len(t_dimorder) : t_dimorder[k] # "X") => C18_PrepLayout

\* Data of rank 4 with longitude before latitude and two other axes of
\* extent 2 between and after them has been prepared.
C18_Witness ==
    /\ t_pc = "prepped"
    /\ t_dimorder = <<"x", "a", "y", "b">>
    /\ t_data.shape = <<1, 2, 2, 2>>
    /\ t_pdata.shape = <<2, 1, 4>>

-----------------------------------------------------------------------------
(* C19, C20 *)

\* The element of array a at idx, the buffers being those of heap.
nd_item(heap, a, idx) == heap[a.base][nd_position(a, idx)]

\* Every index of an array of the given shape.
Indices(shape) == {Unravel(o - 1, shape) : o \in 1..np_prod(shape)}

\* idx with the index of the given axis counted from the other end.
Flipped(idx, shape, axis) ==
    LET k == AxisOf(shape, axis)
    IN  [idx EXCEPT ![k] = shape[k] - 1 - idx[k]]

\* Array r has the shape of the caller's array a and, at every index, the
\* element the caller gave at that index.
SameAsGiven(r, a) ==
    /\ r.shape = a.shape
    /\ \A idx \in Indices(a.shape) :
         nd_item(l_heap, r, idx) = nd_item(l_args.given, a, idx)

\* Array r has the shape of the caller's array a and, at every index, the
\* element the caller gave at the index flipped along the axis: that axis
\* is backwards and every other axis is in place.
ReversedFromGiven(r, a, axis) ==
    /\ r.shape = a.shape
    /\ \A idx \in Indices(a.shape) :
         nd_item(l_heap, r, idx)
         = nd_item(l_args.given, a, Flipped(idx, a.shape, axis))

\* The caller's three buffers hold what they held before the call.
InputsAsGiven == SubSeq(l_heap, 1, 3) = l_args.given

\* The array lives in a buffer that is none of the caller's.
OwnBuffer(r) == r.base \notin 1..3

\* C19: one application of reverse_latdim returns u and v with the given
\* axis backwards and every other axis in place; a second application
\* along the same axis returns arrays equal to the originals; the caller's
\* arrays hold what they held, also after the caller writes to a result
\* (the results are copies).
C19_ReverseLatdim ==
    /\ l_pc \in {"reversed", "reversed2", "reversed_written"}
       => /\ InputsAsGiven
          /\ OwnBuffer(l_ret.u)
          /\ OwnBuffer(l_ret.v)
    /\ l_pc = "reversed"
       => /\ ReversedFromGiven(l_ret.u, l_args.u, l_args.axis)
          /\ ReversedFromGiven(l_ret.v, l_args.v, l_args.axis)
    /\ l_pc = "reversed2"
       => /\ SameAsGiven(l_ret.u, l_args.u)
          /\ SameAsGiven(l_ret.v, l_args.v)

\* Components of shape (2, 2, 2) have been reversed twice along the middle
\* axis and equal the originals, which differ from their own reversal.
C19_Witness ==
    /\ l_pc = "reversed2"
    /\ l_args.u.shape = <<2, 2, 2>>
    /\ l_args.axis = 1
    /\ nd_flat(l_heap, l_ret.u) = l_args.given[2]
    /\ nd_flat(l_heap, l_ret.v) = l_args.given[3]
    /\ ~ReversedFromGiven(l_ret.u, l_args.u, l_args.axis)

\* The first latitude given is smaller than the last.
SouthToNorth ==
    nd_item(l_args.given, l_args.latdim, <<0>>).num
    < nd_item(l_args.given, l_args.latdim,
              <<l_args.latdim.shape[1] - 1>>).num

\* C20: order_latdim returns the latitudes and both components reversed
\* along the given axis when the first latitude is smaller than the last,
\* and copies with the elements as given otherwise; the first latitude
\* returned is never smaller than the last; the caller's arrays hold what
\* they held, also after the caller writes to a result; order_latdim
\* applied to its own results returns arrays equal to them.
C20_OrderLatdim ==
    /\ l_pc \in {"ordered", "ordered2", "ordered_written"}
       => /\ InputsAsGiven
          /\ OwnBuffer(l_ret.latdim)
          /\ OwnBuffer(l_ret.u)
          /\ OwnBuffer(l_ret.v)
    /\ l_pc = "ordered"
       => /\ IF SouthToNorth
             THEN /\ ReversedFromGiven(l_ret.latdim, l_args.latdim, 0)
                  /\ ReversedFromGiven(l_ret.u, l_args.u, l_args.axis)
                  /\ ReversedFromGiven(l_ret.v, l_args.v, l_args.axis)
             ELSE /\ SameAsGiven(l_ret.latdim, l_args.latdim)
                  /\ SameAsGiven(l_ret.u, l_args.u)
                  /\ SameAsGiven(l_ret.v, l_args.v)
          /\ nd_item(l_heap, l_ret.latdim, <<0>>).num
             >= nd_item(l_heap, l_ret.latdim,
                        <<l_ret.latdim.shape[1] - 1>>).num
    /\ l_pc = "ordered2"
       => \A name \in {"latdim", "u", "v"} :
            /\ l_ret[name].shape = l_ret.first[name].shape
            /\ nd_flat(l_heap, l_ret[name])
               = nd_flat(l_heap, l_ret.first[name])

\* Two south-to-north latitudes on the last axis of components of shape
\* (2, 2): order_latdim has reversed them and the components, and a second
\* order_latdim has been applied to the results.
C20_Witness ==
    /\ l_pc = "ordered2"
    /\ l_args.u.shape = <<2, 2>>
    /\ l_args.axis = 0 - 1
    /\ SouthToNorth
    /\ nd_flat(l_heap, l_ret.latdim) = <<Num(2), Num(1)>>
    /\ nd_flat(l_heap, l_ret.u) = <<Num(1), Num(0), Num(3), Num(2)>>

\* North-to-south latitudes: order_latdim has returned copies, and the
\* caller has written to one of them.
C20_CopiesWitness ==
    /\ l_pc = "ordered_written"
    /\ ~SouthToNorth
    /\ l_args.latdim.shape = <<2>>
    /\ nd_flat(l_heap, l_ret.u) # l_args.given[2]

-----------------------------------------------------------------------------
(* C21 *)

\* C21: for every omega that is accepted and every truncation,
\* absolutevorticity(omega, truncation) has the shape of u and each of its
\* elements is the sum of the elements at the same index of
\* planetaryvorticity(omega) and of vorticity(truncation) of the same
\* engine.
C21_AbsoluteIsSum ==
    (/\ e_pc = "built"
     /\ e_call.op = "absolutevorticity"
     /\ ~IsError(planetaryvorticity(e_self, e_call.omega)))
    => LET pvrt == planetaryvorticity(e_self, e_call.omega)
           rvrt == vorticity(e_self, e_call.truncation)
       IN  /\ e_ret.shape = e_args.u.shape
           /\ \A idx \in Indices(e_args.u.shape) :
                /\ At(e_ret, idx).fn = "add"
                /\ At(e_ret, idx).a = At(pvrt, idx)
                /\ At(e_ret, idx).b = At(rvrt, idx)

\* The absolute vorticity of a wind of two fields was computed with an
\* omega of its own and truncation 1, which is not the default truncation.
C21_Witness ==
    /\ e_pc = "built"
    /\ e_call.op = "absolutevorticity"
    /\ e_call.omega = Num(100)
    /\ e_call.truncation = IntVal(1)
    /\ e_self.s.nlat = 4
    /\ e_args.u.shape = <<4, 4, 2>>
    /\ e_ret.shape = <<4, 4, 2>>

-----------------------------------------------------------------------------
(* C22 *)

\* C22: planetaryvorticity returns a field of the shape of u whose element
\* at every index is the Coriolis value of the latitude at the index's
\* first position, whatever the longitude and the third index are; the
\* latitudes are nlat values north to south: the Gaussian latitudes for a
\* gaussian grid and, for a regular grid, the reference inspect_gridtype
\* compares with (the poles included for odd nlat, half a cell inside for
\* even nlat), which inspect_gridtype classifies as regular.
C22_PlanetaryLatitudes ==
    (/\ e_pc = "built"
     /\ e_call.op = "planetaryvorticity"
     /\ ~IsError(e_ret))
    => LET nlat == e_self.s.nlat
           table == IF e_self.gridtype = "gaussian"
                    THEN gaussian_lats(nlat) ELSE equal_reference(nlat)
       IN  /\ e_ret.shape = e_args.u.shape
           /\ Len(table) = nlat
           /\ NorthToSouth(table)
           /\ \A idx \in Indices(e_args.u.shape) :
                /\ At(e_ret, idx).fn = "coriolis"
                /\ At(e_ret, idx).lat = table[idx[1] + 1]
                /\ At(e_ret, idx)
                   = At(e_ret, [k \in 1..Len(idx) |->
                                   IF k = 1 THEN idx[1] ELSE 0])
           /\ e_self.gridtype = "regular"
              => inspect_gridtype(table) = Ok("regular")

\* The planetary vorticity on a gaussian grid of four latitudes and two
\* fields: the last latitude row holds the southernmost Gaussian latitude.
C22_Witness ==
    /\ e_pc = "built"
    /\ e_call.op = "planetaryvorticity"
    /\ e_self.gridtype = "gaussian"
    /\ e_args.u.shape = <<4, 4, 2>>
    /\ ~IsError(e_ret)
    /\ At(e_ret, <<3, 2, 1>>).lat = 0 - 594444

\* The planetary vorticity on a regular grid of four latitudes (half a
\* cell inside the poles) and one of three (the poles included).
C22_EvenWitness ==
    /\ e_pc = "built"
    /\ e_call.op = "planetaryvorticity"
    /\ e_self.gridtype = "regular"
    /\ e_self.s.nlat = 4
    /\ ~IsError(e_ret)
    /\ At(e_ret, <<0, 0>> \o [k \in 1..(Len(e_ret.shape) - 2) |-> 0]).lat
       = 675000

-----------------------------------------------------------------------------
(* C23 *)

\* The omega an element of a planetary or absolute vorticity was computed
\* with.
OmegaOf(x) == IF x.fn = "add" THEN x.a.omega ELSE x.omega

\* C23: planetaryvorticity and absolutevorticity compute with 7.292e-05
\* when omega is None, with the omega given when it is a number (0 stays
\* 0), and raise the invalid-omega ValueError when omega is not a number.
C23_Omega ==
    (/\ e_pc = "built"
     /\ e_call.op \in {"planetaryvorticity", "absolutevorticity"})
    => LET omega == e_call.omega
       IN  IF omega # None /\ ~IsNumber(omega)
           THEN e_ret = ValueError("invalid value for omega")
           ELSE /\ ~IsError(e_ret)
                /\ \A idx \in Indices(e_args.u.shape) :
                     OmegaOf(At(e_ret, idx))
                     = IF omega = None THEN 7292 ELSE omega.num

\* absolutevorticity was called with omega = 0 and computed with 0.
C23_Witness ==
    /\ e_pc = "built"
    /\ e_call.op = "absolutevorticity"
    /\ e_call.omega = Num(0)
    /\ ~IsError(e_ret)
    /\ At(e_ret, <<0, 0>> \o [k \in 1..(Len(e_ret.shape) - 2) |-> 0]).a.omega
       = 0

\* planetaryvorticity was called with a string for omega and raised.
C23_InvalidWitness ==
    /\ e_pc = "built"
    /\ e_call.op = "planetaryvorticity"
    /\ e_call.omega = [str |-> "fast"]
    /\ e_ret = ValueError("invalid value for omega")

-----------------------------------------------------------------------------
(* C24 *)

\* Slice k (1-based) along the last axis of a rank-3 array, row by row.
SliceOf(a, k) ==
    LET n == a.shape[3]
    IN  [p \in 1..(a.shape[1] * a.shape[2]) |-> FlatOf(a)[(p - 1) * n + k]]

\* The 2-D array that is slice k of a rank-3 array given by its elements.
Slice2D(a, k) == [shape |-> SubSeq(a.shape, 1, 2), flat |-> SliceOf(a, k)]

\* u and v given to the constructor are rank-3 stacks of one 2-D field.
StackedWind ==
    /\ Len(e_args.u.shape) = 3
    /\ e_args.v.shape = e_args.u.shape
    /\ \A k \in 1..e_args.u.shape[3] :
         /\ SliceOf(e_args.u, k) = SliceOf(e_args.u, 1)
         /\ SliceOf(e_args.v, k) = SliceOf(e_args.v, 1)

\* The methods that return one array, and those that return several.
OneArrayOps ==
    {"magnitude", "vorticity", "divergence", "planetaryvorticity",
     "absolutevorticity", "streamfunction", "velocitypotential"}

SeveralArrayOps ==
    {"vrtdiv", "sfvp", "helmholtz", "irrotationalcomponent",
     "nondivergentcomponent"}

\* Every slice of the rank-3 array r along its last axis is the 2-D
\* array single.
EverySliceIs(r, single) ==
    /\ r.shape = single.shape \o <<e_args.u.shape[3]>>
    /\ \A k \in 1..e_args.u.shape[3] : SliceOf(r, k) = FlatOf(single)

-----------------------------------------------------------------------------
(* C25 *)

\* A wind value declared in the given units, in metres per second.
ToMetresPerSecond(x, units) ==
    IF units \in MetresPerSecond THEN x
    ELSE [fn |-> "convert", from |-> units, x |-> x]

\* The values an array holds.
ValuesOf(a) == {FlatOf(a)[o] : o \in 1..np_prod(a.shape)}

\* C25: the xarray interface is constructed whatever the units of u and
\* v; when they are not a spelling of metres per second a warning is
\* issued and the engine works on the values converted to metres per
\* second, and when they are one no warning is issued.
C25_UnitsWarning ==
    (m_pc \in {"built", "failed"} /\ m_args.cls = "xarray")
    => /\ m_pc = "built"
       /\ IF m_args.u_attrs.units \in MetresPerSecond
          THEN m_warnings = <<>>
          ELSE /\ Len(m_warnings) > 0
               /\ ValuesOf(m_w.api.u)
                  = {ToMetresPerSecond(x, m_args.u_attrs.units)
                      : x \in ValuesOf(m_args.u.data)}

\* The same for winds declared in a spelling of metres per second only.
C25_NoWarningForMetresPerSecond ==
    m_args.u_attrs.units \in MetresPerSecond => C25_UnitsWarning

-----------------------------------------------------------------------------
(* C26 *)

\* C26: both components the iris and xarray interfaces return from
\* gradient carry units, and these are the units of the field given
\* followed by ' / m'.
C26_GradientUnits ==
    (/\ m_pc = "returned"
     /\ m_call.op = "gradient"
     /\ m_args.cls \in {"iris", "xarray"})
    => \A c \in 1..2 :
         /\ "units" \in DOMAIN m_ret.attrs[c]
         /\ m_ret.attrs[c].units = m_call.field_attrs.units \o " / m"

-----------------------------------------------------------------------------
(* C30 *)

\* The truncation the transform was given for the array truncate returned.
AppliedTruncation(la) == FlatOf(la.data)[1].of.spec.ntrunc.int

\* C30: the variable the cdms interface returns from truncate has the id
\* of the field given followed by '_T' and the truncation that was
\* applied, which is the truncation argument when one is given (0
\* included) and nlat - 1 when none is; the field given keeps its id.
C30_TruncateId ==
    (/\ m_pc = "returned"
     /\ m_call.op = "truncate"
     /\ m_args.cls = "cdms")
    => LET applied == AppliedTruncation(m_ret.arrays[1])
       IN  /\ applied = IF m_call.truncation = None
                        THEN m_w.api.s.nlat - 1
                        ELSE m_call.truncation.int
           /\ m_ret.attrs[1].name
              = m_call.field_attrs.name \o "_T" \o ToString(applied)
           /\ m_call.field_attrs_after = m_call.field_attrs

\* The same for every truncation argument other than 0.
C30_TruncateIdNonZero ==
    (m_call # None /\ m_call.op = "truncate"
     /\ m_call.truncation # IntVal(0))
    => C30_TruncateId

-----------------------------------------------------------------------------
(* C27 *)

\* q holds each of 0..n-1 exactly once.
IsPermutation(q, n) ==
    /\ Len(q) = n
    /\ \A i \in 0..(n - 1) : Cardinality({k \in 1..n : q[k] = i}) = 1

\* The elements of q from 1-based position p on are in ascending order.
AscendingFrom(q, p) ==
    \A j, k \in p..Len(q) : j < k => q[j] < q[k]

\* C27: for every ndim >= 2 and every two distinct axis indices lat and lon,
\* get_apiorder returns as apiorder a permutation of 0..ndim-1 that starts
\* with lat, then lon, then the remaining indices in ascending order, and as
\* reorder its inverse (reorder[apiorder[k]] = k for every k); transposing an
\* array by apiorder and then by reorder gives the array back.
C27_Apiorder ==
    /\ o_pc \in {"ordered", "restored"} =>
          LET n == o_args.ndim
              apiorder == o_ret.apiorder
              reorder == o_ret.reorder
          IN  /\ IsPermutation(apiorder, n)
              /\ apiorder[1] = o_args.latitude_dim
              /\ apiorder[2] = o_args.longitude_dim
              /\ AscendingFrom(apiorder, 3)
              /\ Len(reorder) = n
              /\ \A k \in 0..(n - 1) : reorder[apiorder[k + 1] + 1] = k
    /\ o_pc = "restored" => o_ret.outward = ApiorderArray(o_args.ndim)

\* Five axes with latitude after longitude and both away from the front: the
\* three remaining axes are 0, 2 and 4, and the inward transpose moved data.
C27_Witness ==
    /\ o_pc = "restored"
    /\ o_args = [ndim |-> 5, latitude_dim |-> 3, longitude_dim |-> 1]
    /\ o_ret.apiorder = <<3, 1, 0, 2, 4>>
    /\ o_ret.reorder = <<2, 1, 3, 0, 4>>
    /\ o_ret.inward # ApiorderArray(5)
    /\ o_ret.outward = ApiorderArray(5)

-----------------------------------------------------------------------------
(* C28 *)

\* C28: the inspection of the grid type compares absolute latitudes, so for
\* every latitude sequence inspect_gridtype gives the same outcome (the same
\* grid type, or a failure) for the sequence and for its reversal.
C28_DirectionIndependent ==
    g_pc = "done" =>
        /\ IsError(g_result) = IsError(inspect_gridtype(Reversed(g_lats)))
        /\ ~IsError(g_result) => g_result = inspect_gridtype(Reversed(g_lats))

\* What inspect_gridtype does: a sequence it accepts runs north to south,
\* and the reversal of an accepted sequence is rejected.
C28_AcceptsNorthToSouthOnly ==
    g_pc = "done" /\ ~IsError(g_result) =>
        /\ \A k \in 1..(Len(g_lats) - 1) : g_lats[k] > g_lats[k + 1]
        /\ IsError(inspect_gridtype(Reversed(g_lats)))

\* The spacing test of the cdms _gridtype, which measures every spacing
\* against the first one.
CdmsEvenlySpaced(lat) ==
    LET d == abs_diffs(lat)
    IN  \A k \in 1..Len(d) : Abs(d[k] - d[1]) <= cdms_tolerance

\* The cdms _gridtype gives a sequence and its reversal the same grid type
\* or rejects both, whenever its spacing test says the same of the two.
C28_CdmsDirectionIndependent ==
    g_pc = "done" /\ CdmsEvenlySpaced(g_lats) = CdmsEvenlySpaced(Reversed(g_lats)) =>
        LET given == cdms_gridtype(g_lats)
            reversed == cdms_gridtype(Reversed(g_lats))
        IN  /\ IsError(given) = IsError(reversed)
            /\ ~IsError(given) => given = reversed

\* The global equally spaced latitudes 90, 0, -90 are 'regular' and their
\* reversal -90, 0, 90 is rejected by inspect_gridtype, not by _gridtype.
C28_ReversalRejected ==
    /\ g_pc = "done"
    /\ g_lats = <<Deg90, 0, 0 - Deg90>>
    /\ g_result = Ok("regular")
    /\ IsError(inspect_gridtype(Reversed(g_lats)))
    /\ cdms_gridtype(Reversed(g_lats)) = Ok("regular")

-----------------------------------------------------------------------------
(* C29 *)

\* The preconditions of the constructor that the winds given violate.
MissingViolated == HasMissing(e_args.u) \/ HasMissing(e_args.v)

ShapesViolated == e_args.u.shape # e_args.v.shape

RankViolated == Len(e_args.u.shape) \notin {2, 3}

\* Asked of winds of rank 2 or 3 only.
GridViolated ==
    \/ gridtype_lower(e_args.gridtype) \notin GridTypes
    \/ e_args.u.shape[1] < MinNlat
    \/ e_args.u.shape[2] < MinNlon

GridErrors ==
    {ValueError("invalid grid type"), ValueError("invalid input dimensions")}

\* C29: the constructor of the engine checks missing values, then that u and
\* v have the same shape, then that the rank is 2 or 3, then the grid type
\* and the grid dimensions, and stops at the first check that fails: winds
\* that violate several of them fail with the error of the earliest one, and
\* winds that violate none are accepted.
C29_CheckOrder ==
    /\ e_pc = "failed" =>
          IF MissingViolated
          THEN e_ret = ValueError("u and v cannot contain missing values")
          ELSE IF ShapesViolated
          THEN e_ret = ValueError("u and v must be the same shape")
          ELSE IF RankViolated
          THEN e_ret = ValueError("u and v must be rank 2 or 3 arrays")
          ELSE GridViolated /\ e_ret \in GridErrors
    /\ e_pc = "built" =>
          /\ ~MissingViolated /\ ~ShapesViolated /\ ~RankViolated
          /\ ~GridViolated

\* Winds with a missing value, of different shapes, of rank 1 and on too few
\* longitudes: the error is the one about missing values.
C29_Witness ==
    /\ e_pc = "failed"
    /\ MissingViolated /\ ShapesViolated /\ RankViolated
    /\ e_ret = ValueError("u and v cannot contain missing values")

\* Winds of different shapes, of rank 4 and with a grid type that does not
\* exist: the error is the one about the shapes.
C29_ShapesBeforeRankWitness ==
    /\ e_pc = "failed"
    /\ ~MissingViolated /\ ShapesViolated /\ RankViolated
    /\ e_args.gridtype = "curvilinear"
    /\ e_ret = ValueError("u and v must be the same shape")

\* Winds of rank 4 and the same shape on too few longitudes: the error is
\* the one about the rank.
C29_RankBeforeGridWitness ==
    /\ e_pc = "failed"
    /\ ~MissingViolated /\ ~ShapesViolated /\ Len(e_args.u.shape) = 4
    /\ e_args.u.shape[2] < MinNlon
    /\ e_ret = ValueError("u and v must be rank 2 or 3 arrays")

====
